---- MODULE Spec2Model ----
(***************************************************************************)
(* State-machine model of the QorKernel core:                              *)
(*   - PageBumpAllocator   (qor-core/src/memory/allocators/page/bump.rs)   *)
(*   - BitmapLock          (qor-core/src/utils/bitmap.rs)                  *)
(*   - PageBitmapAllocator (qor-core/src/memory/allocators/page/bitmap.rs) *)
(*   - AllocationTable     (qor-core/src/memory/allocators/byte/mod.rs)    *)
(*   - Sv39 PageTable      (qor-riscv/src/memory/mmu/table.rs)             *)
(*   - SimpleExecutor      (qor-core/src/tasks/executor.rs)                *)
(*   - the write syscall   (qor-os/src/syscalls/handler.rs)                *)
(*   - ProcessManager      (qor-os/src/process/)                           *)
(*   - PLIC driver         (qor-riscv/src/drivers/plic/)                   *)
(*   - CLINT driver        (qor-riscv/src/drivers/clint/)                  *)
(*   - VirtualFileSystem   (qor-core/src/interfaces/fs/vfs.rs)             *)
(*   - AllocationTable under two parallel callers                          *)
(*   - page contents of loaded segments (qor-os/src/process/)              *)
(*   - trap handler and process table (qor-os/src/trap/handle.rs)          *)
(*   - BlockOperationFuture (qor-os/src/drivers/virtio/block/futures.rs)   *)
(*   - path caches of the VirtualFileSystem                                *)
(* Every atomic read-modify-write of the page allocators is one step of    *)
(* the model; code between two atomic operations of one caller is folded   *)
(* into the step that ends with the later atomic operation.                *)
(***************************************************************************)
EXTENDS Integers, Naturals, Sequences, FiniteSets, TLC

VARIABLES
    \* ---- PageBumpAllocator ----
    walking_pointer,    \* AtomicPtr<Page>, in pages, 0 = null
    end_pointer,        \* AtomicPtr<Page>, in pages, 0 = null
    total_pages,        \* AtomicUsize
    bump_region,        \* the region handed to assign_region, <<0, 0>> before
    bump_pc,            \* per caller: position inside assign_region / allocate
    bump_req,           \* per caller: page_count of the call in progress
    bump_end,           \* per caller: the end_pointer the call loaded
    bump_last,          \* outcome of the allocate call that finished last
    bump_log,           \* successful allocations, in the order of their fetch_add
    bump_calls,         \* number of allocate calls started so far
    \* ---- BitmapLock / PageBitmapAllocator ----
    bm_word_bits,       \* bits per bitmap entry (64: the entries are AtomicU64)
    bm_words,           \* BitmapLock.bitmap.len(): number of entries
    bm_length,          \* BitmapLock.length
    bm_pages,           \* for_allocation.len(): pages start_pointer points to
    bm_bits,            \* the set bits of the bitmap, as global bit indexes
    bm_loc,             \* per caller: locals of the allocate / free in progress
    bm_iter,            \* allocator_test: iterations of its loop each thread has begun
    bm_held,            \* per caller: allocations returned to it and not yet freed
    bm_result,          \* outcome of the allocate call that finished last
    \* ---- AllocationTable ----
    bt_entries,         \* AllocationTable.entries, without the lock bits
    pointer_upper_32,   \* AllocationTable.pointer_upper_32
    bt_regions,         \* the regions given to add_region so far
    bt_live,            \* allocations returned by alloc and not yet freed
    bt_last,            \* the operation that finished last
    bt_script,          \* progress along the scenario of the table's test
    bt_ops,             \* number of operations on the table so far
    \* ---- AllocationTableEntry lock ----
    lk_flags,           \* per entry: AllocationTableEntry.flags, as the set of its set bits
    lk_guards,          \* per thread: the entries it holds an AllocationTableEntryGuard of
    lk_pc,              \* per thread: the setter it is in the middle of
    lk_last,            \* the lock() call or setter that finished last
    \* ---- Sv39 PageTable ----
    mm_tables,          \* the page tables in memory: page number of the table -> its valid entries
    mm_allocated,       \* the pages alloc_page returned, in order
    mm_freed,           \* the pages free_page was called with, in order
    mm_ranges,          \* the ranges mapped since the table was empty, in order
    mm_last,            \* the call that finished last
    mm_ops,             \* number of map / map_range calls so far
    \* ---- SimpleExecutor ----
    ex_queue,           \* SimpleExecutor.task_queue, as the ids of the tasks, front first
    ex_future,          \* per task: the state of its future
    ex_spawned,         \* number of tasks spawned so far
    ex_ctl,             \* the locals of the run / run_until_pending call in progress
    ex_log,             \* the polls made so far, in order
    ex_last,            \* the call that returned last
    \* ---- Syscalls of a process ----
    sy_x10,             \* register x10 of the trap frame of the process, as the set of its one bits
    sy_uart,            \* the send_bytes calls the UART driver received, in order
    sy_pages,           \* pages of the process mapped by map_page_sequence
    sy_last,            \* the last syscall handled
    sy_ops,             \* calls made so far
    \* ---- Process ----
    pr_live,            \* pages of the bitmap allocator held by boxes and page sequences
    pr_proc,            \* the process: its boxes, its page sequences, the copies into them
    pr_before,          \* pages of the bitmap allocator in use when the process was created
    pr_bump,            \* pages taken from the bump allocator
    pr_ops,             \* calls made so far
    \* ---- PLICDriver ----
    pl_mmio,            \* the interrupt enable words of the device, by offset, as sets of one bits
    pl_last,            \* the call that returned last
    \* ---- CLINT hardware timer ----
    cl_mtime,           \* machine time register of each hart
    cl_mtimecmp,        \* machine time compare register of each hart
    cl_step,            \* step_size in microseconds
    cl_last,            \* the last call of the driver
    cl_ops,             \* calls and device counts so far
    \* ---- VirtualFileSystem ----
    vf_devices,         \* devices, the list of filesystems
    vf_mounted,         \* mounted_filesystems, inode reference to index
    vf_log,             \* the mounts made, in order
    vf_last,            \* the last request and its answer
    \* ---- AllocationTable under parallel callers ----
    bp_call,            \* the call each caller is in
    bp_guards,          \* the entries each caller holds the guard of
    bp_calls,           \* calls made so far
    \* ---- Contents of the bitmap allocator's pages ----
    ld_fill,            \* per page: what its bytes hold where no segment was copied
    ld_held,            \* buffers of the kernel taken from the bitmap allocator
    \* ---- Trap handler and process table ----
    tp_counter,         \* PID_COUNTER
    tp_table,           \* PROGRAM_TABLE: pid -> process
    tp_lock,            \* who holds the mutex of PROGRAM_TABLE
    tp_hart,            \* the hart: its mode, the ASID of satp, the user pc
    tp_kernel,          \* the kernel thread: its position in start_process
    tp_trap,            \* the trap being handled: cause, position, interrupted context
    tp_at,              \* per pid: the pc at which the timer last interrupted it
    tp_note,            \* the last insert or switch
    tp_starts,          \* processes created so far
    \* ---- VirtIO block operation ----
    bk_status,          \* Request.status, the byte the device answers in
    bk_future,          \* the BlockOperationFuture: none, or its original_value
    bk_polls,           \* polls of the future: the status each read, what it returned
    bk_requests,        \* requests made so far
    \* ---- Path caches of the VirtualFileSystem ----
    vc_path_cache,      \* path_cache: path -> inode
    vc_rev_path_cache,  \* rev_path_cache: inode -> path
    vc_readers,         \* read guards of path_cache that are alive
    vc_call,            \* the invalidate_cache call in progress
    vc_last             \* the call that returned last

bumpVars == <<walking_pointer, end_pointer, total_pages, bump_region, bump_pc,
              bump_req, bump_end, bump_last, bump_log, bump_calls>>

bitmapVars == <<bm_word_bits, bm_words, bm_length, bm_pages, bm_bits, bm_loc, bm_iter, bm_held, bm_result>>

byteVars == <<bt_entries, pointer_upper_32, bt_regions, bt_live, bt_last, bt_script, bt_ops>>

lockVars == <<lk_flags, lk_guards, lk_pc, lk_last>>

mmuVars == <<mm_tables, mm_allocated, mm_freed, mm_ranges, mm_last, mm_ops>>

execVars == <<ex_queue, ex_future, ex_spawned, ex_ctl, ex_log, ex_last>>

sysVars == <<sy_x10, sy_uart, sy_pages, sy_last, sy_ops>>

procVars == <<pr_live, pr_proc, pr_before, pr_bump, pr_ops>>

plicVars == <<pl_mmio, pl_last>>

clintVars == <<cl_mtime, cl_mtimecmp, cl_step, cl_last, cl_ops>>

vfsVars == <<vf_devices, vf_mounted, vf_log, vf_last>>

parVars == <<bp_call, bp_guards, bp_calls>>

loadVars == <<ld_fill, ld_held>>

trapVars == <<tp_counter, tp_table, tp_lock, tp_hart, tp_kernel, tp_trap, tp_at, tp_note, tp_starts>>

blockVars == <<bk_status, bk_future, bk_polls, bk_requests>>

cacheVars == <<vc_path_cache, vc_rev_path_cache, vc_readers, vc_call, vc_last>>

vars == <<bumpVars, bitmapVars, byteVars, lockVars, mmuVars, execVars, sysVars, procVars, plicVars, clintVars, vfsVars, parVars, loadVars, trapVars, blockVars, cacheVars>>

\* What the operations of one allocator leave alone: the other allocators.
nonBumpVars == <<bitmapVars, byteVars, lockVars, mmuVars, execVars, sysVars, procVars, plicVars, clintVars, vfsVars, parVars, loadVars, trapVars, blockVars, cacheVars>>
nonBitmapVars == <<bumpVars, byteVars, lockVars, mmuVars, execVars, sysVars, procVars, plicVars, clintVars, vfsVars, parVars, loadVars, trapVars, blockVars, cacheVars>>
nonByteVars == <<bumpVars, bitmapVars, lockVars, mmuVars, execVars, sysVars, procVars, plicVars, clintVars, vfsVars, parVars, loadVars, trapVars, blockVars, cacheVars>>
nonParByteVars == <<bumpVars, bitmapVars, lockVars, mmuVars, execVars, sysVars, procVars, plicVars, clintVars, vfsVars, loadVars, trapVars, blockVars, cacheVars>>
nonLockVars == <<bumpVars, bitmapVars, byteVars, mmuVars, execVars, sysVars, procVars, plicVars, clintVars, vfsVars, parVars, loadVars, trapVars, blockVars, cacheVars>>
nonMmuVars == <<bumpVars, bitmapVars, byteVars, lockVars, execVars, sysVars, procVars, plicVars, clintVars, vfsVars, parVars, loadVars, trapVars, blockVars, cacheVars>>
nonExecVars == <<bumpVars, bitmapVars, byteVars, lockVars, mmuVars, sysVars, procVars, plicVars, clintVars, vfsVars, parVars, loadVars, trapVars, blockVars, cacheVars>>
nonSysVars == <<bumpVars, bitmapVars, byteVars, lockVars, mmuVars, execVars, procVars, plicVars, clintVars, vfsVars, parVars, loadVars, trapVars, blockVars, cacheVars>>
nonSysMmuVars == <<bumpVars, bitmapVars, byteVars, lockVars, execVars, procVars, plicVars, clintVars, vfsVars, parVars, loadVars, trapVars, blockVars, cacheVars>>
nonProcVars == <<bumpVars, bitmapVars, byteVars, lockVars, mmuVars, execVars, sysVars, plicVars, clintVars, vfsVars, parVars, loadVars, trapVars, blockVars, cacheVars>>
nonProcLoadVars == <<bumpVars, bitmapVars, byteVars, lockVars, mmuVars, execVars, sysVars, plicVars, clintVars, vfsVars, parVars, trapVars, blockVars, cacheVars>>
nonProcMmuVars == <<bumpVars, bitmapVars, byteVars, lockVars, execVars, sysVars, plicVars, clintVars, vfsVars, parVars, loadVars, trapVars, blockVars, cacheVars>>
nonPlicVars == <<bumpVars, bitmapVars, byteVars, lockVars, mmuVars, execVars, sysVars, procVars, clintVars, vfsVars, parVars, loadVars, trapVars, blockVars, cacheVars>>
nonClintVars == <<bumpVars, bitmapVars, byteVars, lockVars, mmuVars, execVars, sysVars, procVars, plicVars, vfsVars, parVars, loadVars, trapVars, blockVars, cacheVars>>
nonVfsVars == <<bumpVars, bitmapVars, byteVars, lockVars, mmuVars, execVars, sysVars, procVars, plicVars, clintVars, parVars, loadVars, trapVars, blockVars, cacheVars>>
nonParVars == <<bumpVars, bitmapVars, byteVars, lockVars, mmuVars, execVars, sysVars, procVars, plicVars, clintVars, vfsVars, loadVars, trapVars, blockVars, cacheVars>>
nonLoadVars == <<bumpVars, bitmapVars, byteVars, lockVars, mmuVars, execVars, sysVars, procVars, plicVars, clintVars, vfsVars, parVars, trapVars, blockVars, cacheVars>>
nonTrapVars == <<bumpVars, bitmapVars, byteVars, lockVars, mmuVars, execVars, sysVars, procVars, plicVars, clintVars, vfsVars, parVars, loadVars, blockVars, cacheVars>>
nonBlockVars == <<bumpVars, bitmapVars, byteVars, lockVars, mmuVars, execVars, sysVars, procVars, plicVars, clintVars, vfsVars, parVars, loadVars, trapVars, cacheVars>>
nonCacheVars == <<bumpVars, bitmapVars, byteVars, lockVars, mmuVars, execVars, sysVars, procVars, plicVars, clintVars, vfsVars, parVars, loadVars, trapVars, blockVars>>

(***************************************************************************)
(* Bounds of the model.                                                    *)
(***************************************************************************)
\* Number of concurrent callers of the bump allocator.
BumpCallers == 2
\* Size of the (wrapping) address space, in pages: pointers are taken modulo
\* this, as usize pointers are taken modulo 2^64 bytes in the source.
AddrSpacePages == 6
\* Largest page_count passed to PageBumpAllocator::allocate.
MaxBumpRequest == 6
\* Number of PageBumpAllocator::allocate calls in one behaviour.
MaxBumpCalls == 3
\* size_of::<Page>() of the Page type the bitmap allocator is built for.
PageBytes == 8
\* Number of concurrent callers of the bitmap allocator.
BitmapCallers == 2
\* Allocations one caller of the bitmap allocator holds at a time.
MaxHeld == 1
\* Allocations the caller holds at a time where there is one caller only.
SeqHeld == 2
\* Bits per bitmap entry where the concurrent callers are explored (the
\* source's entries hold 64 bits; WORD_BITS below).
ScaledWordBits == 4
\* Largest page count the concurrent callers ask for.
MaxCount == 3
\* Threads of allocator_test that are run (THREAD_COUNT of them exist).
ContentionThreads == 3
\* Iterations of its loop each thread of allocator_test makes (ALLOCATIONS in
\* the source).
MaxIterations == 1
\* Lengths of the page slices from_pages is given.
BitmapPageCounts == {5, 10}
SeqPageCounts == {4, 65, 131}
ContentionPageCounts == {64, 130}
\* Entries of the allocation table (ALLOCATION_TABLE_LENGTH is 508 in the
\* source, where size_of::<usize>() is 8).
ALLOCATION_TABLE_LENGTH == 5
\* Bits of the low pointer of an entry (32 in the source).
LowPointerBits == 14
\* Regions given to add_region.
MaxRegions == 2
\* Operations on the allocation table in one behaviour.
MaxByteOps == 8

\* Threads that lock entries of the allocation table, and entries they lock.
LockThreads == 2
LockEntries == 2

\* Calls on the page table in one behaviour.
MaxMmuOps == 3

\* Tasks spawned on the executor, and the most Pending returns of a future
\* that becomes Ready.
MaxTasks == 3
MaxPending == 2

\* Calls on one process, and the page number of the first page that
\* PageSequence::alloc hands out.
MaxSysOps == 4
UserPool == 540672

\* Pages of the bitmap allocator that boxes and page sequences come from,
\* calls on the process, and the largest stack of a process, in pages.
PoolPages == 12
MaxProcOps == 4
MaxStack == 2

\* Harts that the PLIC serves.
PlicHarts == 2

\* Harts with a timer, bits of a timer register (64 in the program), calls
\* of the timer driver in one behaviour.
ClintHarts == 2
ClockBits == 24
MaxClintOps == 3

\* Filesystems mounted in one behaviour.
MaxMounts == 3

\* Callers that use the allocation table in parallel, and the calls they
\* make in one behaviour.
ByteCallers == 2
MaxParallelCalls == 4

\* Buffers the kernel holds at once, and the pages of one buffer.
MaxBuffers == 2
BufferPages == 2

\* Width of a PID in bits (the counter is an AtomicU16, scaled), processes
\* created, and instructions a process runs from its entry point.
PidBits == 2
MaxStarts == 5
MaxUserSteps == 2

\* Block requests made, and polls of one future.
MaxRequests == 2
MaxBlockPolls == 3

(***************************************************************************)
(* Constants of the program.                                               *)
(***************************************************************************)
\* Bits per bitmap entry (AtomicU64).
WORD_BITS == 64
\* Threads of allocator_test.
THREAD_COUNT == 4
\* Bits of the allocation length of an entry (ALLOCATION_LENGTH_MASK).
ALLOCATION_LENGTH_BITS == 13
\* The largest length coalesce_free_regions merges two entries into.
COALESCE_LIMIT == 4096

\* Bits of AllocationTableEntry.flags (AtomicU32).
FLAG_BITS == 32

\* PageTableEntry slots of a PageTable, and bytes of a page.
TABLE_ENTRIES == 512
PAGE_SIZE == 4096
\* PPN2_MASK is (1 << PPN2_MASK_BITS) - 1.
PPN2_MASK_BITS == 26

\* Width of a register of the trap frame, and the number of Write.
XLEN == 64
SYS_WRITE == 1

\* Offset of the enable words of hart 0, bytes from one hart to the next,
\* and bits of one enable word.
INTERRUPT_ENABLE_REGISTER_BASE == 8192
INTERRUPT_ENABLE_STRIDE == 128
ENABLE_WORD_BITS == 32

\* Device ticks in a microsecond, microseconds in a second.
TICKS_PER_MICROSECOND == 10
MICROSECONDS_PER_SECOND == 1000000

\* Device id of an EmptyFileSystem and of an Ext2FileSystem before they are
\* mounted, and the inode number of the root of an ext2 filesystem.
EMPTY_UNMOUNTED_ID == 42
EXT2_UNMOUNTED_ID == 0
EXT2_ROOT_INODE == 2

\* The status a request starts with (non_blocking_block_operation).
ORIGINAL_STATUS == 111

(***************************************************************************)
(* PageBumpAllocator                                                       *)
(***************************************************************************)
BumpThreads == 1..BumpCallers

\* The regions assign_region may be given: start non-null, start < end, no
\* wrap between start and end (safety contract of assign_region).
BumpRegions == {<<s, e>> \in (1..(AddrSpacePages - 1)) \X (1..(AddrSpacePages - 1)) : s < e}

\* AtomicPtr::fetch_ptr_add: wrapping pointer addition, in units of Page.
fetch_ptr_add_mut(ptr, val) == IF ptr + val >= AddrSpacePages THEN AddrSpacePages - 1 ELSE ptr + val
fetch_ptr_add(ptr, val) == (ptr + val) % AddrSpacePages

\* The part of allocate after the fetch_ptr_add: `walking` is the value the
\* fetch_ptr_add returned, `endp` the end_pointer loaded before it.
BumpOutcomeMut(walking, endp, page_count) ==
    IF walking > endp THEN "OutOfMemory"
    ELSE IF endp - walking >= page_count THEN "Ok" ELSE "OutOfMemory"
BumpOutcome(walking, endp, page_count) ==
    IF walking >= endp THEN "OutOfMemory"
    ELSE IF endp - walking >= page_count THEN "Ok" ELSE "OutOfMemory"

NoBumpResult == [kind |-> "None", base |-> 0, count |-> 0, endp |-> 0, after |-> 0]

BumpInit ==
    /\ walking_pointer = 0
    /\ end_pointer = 0
    /\ total_pages = 0
    /\ bump_region = <<0, 0>>
    /\ bump_pc = [t \in BumpThreads |-> "idle"]
    /\ bump_req = [t \in BumpThreads |-> 0]
    /\ bump_end = [t \in BumpThreads |-> 0]
    /\ bump_last = NoBumpResult
    /\ bump_log = <<>>
    /\ bump_calls = 0

\* assign_region, first store: walking_pointer.store(region.start, Relaxed).
\* The kernel assigns its heap region once, from one caller.
AssignRegionStart(t, region) ==
    /\ bump_pc[t] = "idle"
    /\ bump_region = <<0, 0>>
    /\ \A u \in BumpThreads : bump_pc[u] \notin {"assign_total", "assign_end"}
    /\ walking_pointer' = region[1]
    /\ bump_region' = region
    /\ bump_pc' = [bump_pc EXCEPT ![t] = "assign_total"]
    /\ UNCHANGED <<end_pointer, total_pages, bump_req, bump_end, bump_last, bump_log, bump_calls>>
    /\ UNCHANGED nonBumpVars

\* assign_region, second store: total_pages.store(end - start, Relaxed).
AssignRegionTotal(t) ==
    /\ bump_pc[t] = "assign_total"
    /\ total_pages' = bump_region[2] - bump_region[1]
    /\ bump_pc' = [bump_pc EXCEPT ![t] = "assign_end"]
    /\ UNCHANGED <<walking_pointer, end_pointer, bump_region, bump_req, bump_end, bump_last, bump_log, bump_calls>>
    /\ UNCHANGED nonBumpVars

\* assign_region, last store: end_pointer.store(region.end, Release).
AssignRegionEnd(t) ==
    /\ bump_pc[t] = "assign_end"
    /\ end_pointer' = bump_region[2]
    /\ bump_pc' = [bump_pc EXCEPT ![t] = "idle"]
    /\ UNCHANGED <<walking_pointer, total_pages, bump_region, bump_req, bump_end, bump_last, bump_log, bump_calls>>
    /\ UNCHANGED nonBumpVars

\* allocate(page_count), first atomic step: end_pointer.load(Acquire); a null
\* end_pointer returns Uninitialized at once.
BumpAllocateLoad(t, page_count) ==
    /\ bump_pc[t] = "idle"
    /\ bump_calls < MaxBumpCalls
    /\ bump_calls' = bump_calls + 1
    /\ IF end_pointer = 0
       THEN /\ bump_last' = [kind |-> "Uninitialized", base |-> walking_pointer,
                              count |-> page_count, endp |-> 0, after |-> walking_pointer]
            /\ UNCHANGED <<bump_pc, bump_req, bump_end>>
       ELSE /\ bump_req' = [bump_req EXCEPT ![t] = page_count]
            /\ bump_end' = [bump_end EXCEPT ![t] = end_pointer]
            /\ bump_pc' = [bump_pc EXCEPT ![t] = "fetch_add"]
            /\ UNCHANGED bump_last
    /\ UNCHANGED <<walking_pointer, end_pointer, total_pages, bump_region, bump_log>>
    /\ UNCHANGED nonBumpVars

\* allocate(page_count), second atomic step: walking_pointer.fetch_ptr_add and
\* the comparisons that follow it.
BumpAllocateFetchAdd(t) ==
    /\ bump_pc[t] = "fetch_add"
    /\ LET walking == walking_pointer
           outcome == BumpOutcome(walking, bump_end[t], bump_req[t])
       IN /\ walking_pointer' = fetch_ptr_add(walking_pointer, bump_req[t])
          /\ bump_last' = [kind |-> outcome, base |-> walking, count |-> bump_req[t],
                            endp |-> bump_end[t], after |-> fetch_ptr_add(walking, bump_req[t])]
          /\ bump_log' = IF outcome = "Ok"
                         THEN Append(bump_log, [base |-> walking, count |-> bump_req[t]])
                         ELSE bump_log
    /\ bump_pc' = [bump_pc EXCEPT ![t] = "idle"]
    /\ bump_req' = [bump_req EXCEPT ![t] = 0]
    /\ bump_end' = [bump_end EXCEPT ![t] = 0]
    /\ UNCHANGED <<end_pointer, total_pages, bump_region, bump_calls>>
    /\ UNCHANGED nonBumpVars

BumpNext ==
    \/ \E t \in BumpThreads, region \in BumpRegions : AssignRegionStart(t, region)
    \/ \E t \in BumpThreads : AssignRegionTotal(t)
    \/ \E t \in BumpThreads : AssignRegionEnd(t)
    \/ \E t \in BumpThreads, page_count \in 0..MaxBumpRequest : BumpAllocateLoad(t, page_count)
    \/ \E t \in BumpThreads : BumpAllocateFetchAdd(t)


(***************************************************************************)
(* BitmapLock and PageBitmapAllocator                                      *)
(***************************************************************************)
BmThreads == 1..THREAD_COUNT

Min(a, b) == IF a <= b THEN a ELSE b

\* from_pages: the number of u64s that can be put into a Page.
u64s_per_page == PageBytes \div 8

\* from_pages: pages carved off the front of the slice for the bitmap.
pages_for_bitmap(data_len, word_bits) ==
    LET denominator == word_bits * u64s_per_page + 1
    IN (data_len + denominator - 1) \div denominator

\* BitmapLock::from_data: the length the lock keeps.
from_data_mut(bitmap_len, length, word_bits) ==
    IF bitmap_len * word_bits >= length THEN length + 1 ELSE length
from_data(bitmap_len, length, word_bits) ==
    IF bitmap_len * word_bits >= length THEN bitmap_len * word_bits ELSE length

\* The bits of entry `entry_index`, as offsets 0..63 (an atomic load).
EntryBits(bits, entry_index) ==
    {b \in 0..(bm_word_bits - 1) : entry_index * bm_word_bits + b \in bits}

\* u64::trailing_ones: 64 when the value is u64::MAX.
trailing_ones(mask) ==
    CHOOSE b \in 0..bm_word_bits : (\A c \in 0..(b - 1) : c \in mask) /\ b \notin mask

\* try_set / clear: the bits of `count` that fall into the entry of `index`.
bit_count_mut(index, count) == Min(count, bm_word_bits - 1 - (index % bm_word_bits))
bit_count(index, count) == Min(count, bm_word_bits - (index % bm_word_bits))

\* this_mask of try_set / clear, as the global bit indexes it covers.
this_mask(index, count) == index..(index + bit_count(index, count) - 1)

\* The range check at the head of try_set and clear: TRUE when the call goes
\* on, FALSE when it returns RangeOutOfBounds.
InBoundsMut(index, count, length) == ~(index + count > length)
InBounds(index, count, length) == ~(index + count >= length)

\* try_set_in_entry: the bits to take back after a fetch_or that read `read`.
excess_mut(mask, read) == mask
excess_none(mask, read) == {}
excess_of(mask, read) == mask \ read

\* The locals of a caller between calls. collided and unwound record what the
\* call in progress went through, for its result.
IdleLoc == [pc |-> "idle", count |-> 0, entry |-> 0, mask |-> {}, start |-> 0,
            cur |-> 0, left |-> 0, excess |-> {}, spans |-> <<>>, fresh |-> FALSE,
            collided |-> FALSE, unwound |-> FALSE]

NoBmResult == [kind |-> "None", index |-> 0, count |-> 0, fresh |-> FALSE,
               collided |-> FALSE, unwound |-> FALSE]

\* reserve_sequence, from the head of the while loop with the local
\* mask_off_impossible_indexes = mask: the next atomic operation the caller
\* performs ("or": try_set's fetch_or at the lowest clear bit; "load": the
\* load of the next entry; "fail": UnableToAllocate, no entry is left).
Scan(loc, mask) ==
    LET bit_index == trailing_ones(mask)
        index == loc.entry * bm_word_bits + bit_index
        next_entry == IF loc.entry + 1 < bm_words
                      THEN [loc EXCEPT !.pc = "load", !.entry = loc.entry + 1, !.mask = {},
                                       !.start = 0, !.cur = 0, !.left = 0, !.excess = {},
                                       !.spans = <<>>]
                      ELSE [loc EXCEPT !.pc = "fail"]
    IN IF bit_index = bm_word_bits THEN next_entry
       ELSE IF ~InBounds(index, loc.count, bm_length) THEN next_entry
       ELSE [loc EXCEPT !.pc = "or", !.mask = mask, !.start = index, !.cur = index,
                        !.left = loc.count, !.excess = {}, !.spans = <<>>]

\* reserve_sequence after try_set returned Ok(false):
\* mask_off_impossible_indexes |= 1 << bit_index, and around the loop again.
AfterFailedTry(loc) ==
    Scan(loc, loc.mask \cup {loc.start - loc.entry * bm_word_bits})

\* The caller's locals after a step that left them `loc`: a finished
\* reserve_sequence makes allocate return and the caller idle again.
Settle(loc) == IF loc.pc = "fail" THEN IdleLoc ELSE loc

\* allocate's result once reserve_sequence ended with UnableToAllocate.
Failed(loc) == [kind |-> "OutOfMemory", index |-> 0, count |-> loc.count, fresh |-> loc.fresh,
                collided |-> loc.collided, unwound |-> loc.unwound]

\* PageBitmapAllocator::new(): no pages, an empty lock.
BitmapNew ==
    /\ bm_word_bits = WORD_BITS
    /\ bm_words = 0
    /\ bm_length = 0
    /\ bm_pages = 0
    /\ bm_bits = {}
    /\ bm_loc = [t \in BmThreads |-> IdleLoc]
    /\ bm_iter = [t \in BmThreads |-> 0]
    /\ bm_held = [t \in BmThreads |-> <<>>]
    /\ bm_result = NoBmResult

\* PageBitmapAllocator::from_pages on a slice of data_len pages, with bitmap
\* entries of word_bits bits.
from_pages(data_len, word_bits) ==
    /\ bm_word_bits = word_bits
    /\ bm_words = pages_for_bitmap(data_len, word_bits) * u64s_per_page
    /\ bm_pages = data_len - pages_for_bitmap(data_len, word_bits)
    /\ bm_length = from_data(pages_for_bitmap(data_len, word_bits) * u64s_per_page,
                             data_len - pages_for_bitmap(data_len, word_bits), word_bits)
    /\ bm_bits = {}
    /\ bm_loc = [t \in BmThreads |-> IdleLoc]
    /\ bm_iter = [t \in BmThreads |-> 0]
    /\ bm_held = [t \in BmThreads |-> <<>>]
    /\ bm_result = NoBmResult

\* allocate(page_count) begins: page_count > 0 is asserted, start_pointer is
\* loaded (non-null after from_pages) and reserve_sequence starts at entry 0.
AllocateBegin(t, page_count, max_held) ==
    /\ bm_loc[t].pc = "idle"
    /\ page_count > 0
    /\ Len(bm_held[t]) < max_held
    /\ LET loc == [IdleLoc EXCEPT !.count = page_count, !.fresh = (bm_bits = {}),
                                  !.pc = IF bm_words > 0 THEN "load" ELSE "fail"]
       IN /\ bm_loc' = [bm_loc EXCEPT ![t] = Settle(loc)]
          /\ bm_result' = IF loc.pc = "fail" THEN Failed(loc) ELSE bm_result
    /\ UNCHANGED <<bm_word_bits, bm_words, bm_length, bm_pages, bm_bits, bm_held>>
    /\ UNCHANGED nonBitmapVars

\* A caller calls allocate(page_count).
BmAllocate(t, page_count, max_held) ==
    /\ AllocateBegin(t, page_count, max_held)
    /\ UNCHANGED bm_iter

\* allocator_test: thread t - 1 enters the next iteration of its loop and
\* calls allocate(i + 1), having freed the allocation of the iteration before.
TestAllocate(t) ==
    /\ bm_iter[t] < MaxIterations
    /\ AllocateBegin(t, t, 1)
    /\ bm_iter' = [bm_iter EXCEPT ![t] = bm_iter[t] + 1]

\* reserve_sequence: self.bitmap[entry_index].load(Relaxed), then the while
\* loop up to its first try_set.
BmLoad(t) ==
    /\ bm_loc[t].pc = "load"
    /\ LET loc == Scan(bm_loc[t], EntryBits(bm_bits, bm_loc[t].entry))
       IN /\ bm_loc' = [bm_loc EXCEPT ![t] = Settle(loc)]
          /\ bm_result' = IF loc.pc = "fail" THEN Failed(loc) ELSE bm_result
    /\ UNCHANGED <<bm_word_bits, bm_words, bm_length, bm_pages, bm_bits, bm_iter, bm_held>>
    /\ UNCHANGED nonBitmapVars

\* try_set_in_entry: the fetch_or of this_mask, for the sub-span of the request
\* that starts at loc.cur. Without a collision try_set either recurses into
\* the next entry or the whole request is acquired and allocate returns.
BmFetchOr(t) ==
    /\ bm_loc[t].pc = "or"
    /\ LET loc == bm_loc[t]
           mask == this_mask(loc.cur, loc.left)
           read == bm_bits
           taken == bit_count(loc.cur, loc.left)
           next_count == loc.left - taken
       IN /\ bm_bits' = bm_bits \cup mask
          /\ IF read \cap mask # {}
             THEN /\ bm_loc' = [bm_loc EXCEPT ![t] =
                          [loc EXCEPT !.pc = "clear_excess", !.excess = excess_of(mask, read),
                                      !.collided = TRUE]]
                  /\ UNCHANGED <<bm_held, bm_result>>
             ELSE IF next_count > 0 /\ InBounds(loc.cur + taken, next_count, bm_length)
             THEN /\ bm_loc' = [bm_loc EXCEPT ![t] =
                          [loc EXCEPT !.cur = loc.cur + taken, !.left = next_count,
                                      !.spans = Append(loc.spans, <<loc.cur, taken>>)]]
                  /\ UNCHANGED <<bm_held, bm_result>>
             ELSE IF next_count > 0
             THEN \* the inner try_set returned RangeOutOfBounds: `?` hands it up
                  \* to reserve_sequence, which breaks out of the while loop
                  LET after == Scan([loc EXCEPT !.mask = 0..(bm_word_bits - 1)], 0..(bm_word_bits - 1))
                  IN /\ bm_loc' = [bm_loc EXCEPT ![t] = Settle(after)]
                     /\ bm_result' = IF after.pc = "fail" THEN Failed(after) ELSE bm_result
                     /\ UNCHANGED bm_held
             ELSE /\ bm_loc' = [bm_loc EXCEPT ![t] = IdleLoc]
                  /\ bm_held' = [bm_held EXCEPT ![t] =
                          Append(bm_held[t], [index |-> loc.start, count |-> loc.count])]
                  /\ bm_result' = [kind |-> "Ok", index |-> loc.start, count |-> loc.count,
                                   fresh |-> loc.fresh, collided |-> loc.collided,
                                   unwound |-> loc.unwound]
    /\ UNCHANGED <<bm_word_bits, bm_words, bm_length, bm_pages, bm_iter>>
    /\ UNCHANGED nonBitmapVars

\* try_set_in_entry after a collision: clear_in_entry(entry_index, excess), a
\* fetch_and; try_set then returns Ok(false).
BmClearExcess(t) ==
    /\ bm_loc[t].pc = "clear_excess"
    /\ bm_bits' = bm_bits \ bm_loc[t].excess
    /\ LET loc == IF bm_loc[t].spans = <<>>
                  THEN AfterFailedTry([bm_loc[t] EXCEPT !.excess = {}])
                  ELSE [bm_loc[t] EXCEPT !.pc = "unwind", !.excess = {}]
       IN /\ bm_loc' = [bm_loc EXCEPT ![t] = Settle(loc)]
          /\ bm_result' = IF loc.pc = "fail" THEN Failed(loc) ELSE bm_result
    /\ UNCHANGED <<bm_word_bits, bm_words, bm_length, bm_pages, bm_iter, bm_held>>
    /\ UNCHANGED nonBitmapVars

\* try_set after a later sub-span failed: self.clear(index, bit_count) takes
\* back the sub-span this level had set, innermost level first.
BmUnwind(t) ==
    /\ bm_loc[t].pc = "unwind"
    /\ LET spans == bm_loc[t].spans
           top == spans[Len(spans)]
           rest == SubSeq(spans, 1, Len(spans) - 1)
           loc == IF rest = <<>>
                  THEN AfterFailedTry([bm_loc[t] EXCEPT !.spans = rest, !.unwound = TRUE])
                  ELSE [bm_loc[t] EXCEPT !.spans = rest, !.unwound = TRUE]
       IN /\ InBounds(top[1], top[2], bm_length)
          /\ bm_bits' = bm_bits \ this_mask(top[1], top[2])
          /\ bm_loc' = [bm_loc EXCEPT ![t] = Settle(loc)]
          /\ bm_result' = IF loc.pc = "fail" THEN Failed(loc) ELSE bm_result
    /\ UNCHANGED <<bm_word_bits, bm_words, bm_length, bm_pages, bm_iter, bm_held>>
    /\ UNCHANGED nonBitmapVars

RemoveAt(seq, i) == SubSeq(seq, 1, i - 1) \o SubSeq(seq, i + 1, Len(seq))

\* free(ptr, page_count) of an allocation the caller holds: clear(index,
\* count) up to its first clear_in_entry (a failed range check would be the
\* panic "Safety Contract Violated").
BmFree(t, i) ==
    /\ bm_loc[t].pc = "idle"
    /\ i \in 1..Len(bm_held[t])
    /\ LET a == bm_held[t][i]
           taken == bit_count(a.index, a.count)
       IN /\ InBounds(a.index, a.count, bm_length)
          /\ bm_bits' = bm_bits \ this_mask(a.index, a.count)
          /\ bm_held' = [bm_held EXCEPT ![t] = RemoveAt(bm_held[t], i)]
          /\ bm_loc' = [bm_loc EXCEPT ![t] =
                  IF a.count - taken > 0
                  THEN [IdleLoc EXCEPT !.pc = "free", !.cur = a.index + taken,
                                       !.left = a.count - taken]
                  ELSE IdleLoc]
    /\ UNCHANGED <<bm_word_bits, bm_words, bm_length, bm_pages, bm_iter, bm_result>>
    /\ UNCHANGED nonBitmapVars

\* clear, recursing into the next entry: one more clear_in_entry.
BmFreeNext(t) ==
    /\ bm_loc[t].pc = "free"
    /\ LET loc == bm_loc[t]
           taken == bit_count(loc.cur, loc.left)
       IN /\ InBounds(loc.cur, loc.left, bm_length)
          /\ bm_bits' = bm_bits \ this_mask(loc.cur, loc.left)
          /\ bm_loc' = [bm_loc EXCEPT ![t] =
                  IF loc.left - taken > 0
                  THEN [loc EXCEPT !.cur = loc.cur + taken, !.left = loc.left - taken]
                  ELSE IdleLoc]
    /\ UNCHANGED <<bm_word_bits, bm_words, bm_length, bm_pages, bm_iter, bm_held, bm_result>>
    /\ UNCHANGED nonBitmapVars

\* Concurrent callers allocating any page count up to MaxCount and freeing
\* what they hold, each holding at most MaxHeld allocations at a time.
BitmapNext ==
    \/ \E t \in 1..BitmapCallers, page_count \in 1..MaxCount : BmAllocate(t, page_count, MaxHeld)
    \/ \E t \in 1..BitmapCallers : BmLoad(t)
    \/ \E t \in 1..BitmapCallers : BmFetchOr(t)
    \/ \E t \in 1..BitmapCallers : BmClearExcess(t)
    \/ \E t \in 1..BitmapCallers : BmUnwind(t)
    \/ \E t \in 1..BitmapCallers, i \in 1..MaxHeld : BmFree(t, i)
    \/ \E t \in 1..BitmapCallers : BmFreeNext(t)

\* The page counts the single caller asks for: one page, two, a whole bitmap
\* entry, every page the allocator owns, and one more than it owns.
SeqCounts == {1, 2, WORD_BITS, bm_pages, bm_pages + 1}

\* One caller alone.
BitmapSeqNext ==
    \/ \E page_count \in SeqCounts : BmAllocate(1, page_count, SeqHeld)
    \/ BmLoad(1)
    \/ BmFetchOr(1)
    \/ BmClearExcess(1)
    \/ BmUnwind(1)
    \/ \E i \in 1..SeqHeld : BmFree(1, i)
    \/ BmFreeNext(1)

\* allocator_test: thread i loops allocate(i + 1) followed by the free of
\* that allocation (caller t of the model is thread t - 1 of the test).
ContentionNext ==
    \/ \E t \in 1..ContentionThreads : TestAllocate(t)
    \/ \E t \in 1..ContentionThreads : BmLoad(t)
    \/ \E t \in 1..ContentionThreads : BmFetchOr(t)
    \/ \E t \in 1..ContentionThreads : BmClearExcess(t)
    \/ \E t \in 1..ContentionThreads : BmUnwind(t)
    \/ \E t \in 1..ContentionThreads : BmFree(t, 1)
    \/ \E t \in 1..ContentionThreads : BmFreeNext(t)

(***************************************************************************)
(* AllocationTable (byte allocator), driven by one caller: every entry     *)
(* lock an operation takes is released before the operation returns, so    *)
(* each operation is one step.                                             *)
(***************************************************************************)
\* The values of the 13-bit allocation length field and of the low pointer.
LengthSpace == 2 ^ ALLOCATION_LENGTH_BITS
LowSpace == 2 ^ LowPointerBits

TableIndexes == 0..(ALLOCATION_TABLE_LENGTH - 1)

\* Option::None of an entry index or of a pointer.
None == -1

\* AllocationTableEntry::empty().
EmptyEntry == [valid |-> FALSE, allocated |-> FALSE, length |-> 0, next |-> 0, low |-> 0]

\* The upper 32 bits all regions of the table share, and the regions the
\* caller has to give: their base pointers and their lengths in bytes. The
\* first two bases are aligned to 128 bytes, the second lying where a
\* 4096-byte region at the first ends; the third is aligned to 4 bytes only;
\* the last lies 200 bytes below the point where the low pointer wraps.
RegionUpper == 1
RegionBases == {RegionUpper * LowSpace + 4096,
                RegionUpper * LowSpace + 8192,
                RegionUpper * LowSpace + 12292,
                RegionUpper * LowSpace + LowSpace - 200}
RegionLengths == {4096, 8192}

\* The (size, align) pairs passed to alloc.
AllocRequests == {<<128, 128>>, <<16, 4>>}

\* AllocationTableEntryGuard::set_allocation_length.
set_allocation_length(entry, length) == [entry EXCEPT !.length = length % LengthSpace]

\* AllocationTableEntryGuard::set_next.
set_next_mut(entry, next_pointer) == entry
set_next(entry, next_pointer) == [entry EXCEPT !.next = next_pointer]

\* AllocationTableEntryGuard::update.
update(entry, valid, allocated, size, pointer_low) ==
    [set_allocation_length(entry, size) EXCEPT !.valid = valid, !.allocated = allocated,
                                               !.low = pointer_low]

\* AllocationTableEntryGuard::pointer.
pointer(entry, upper) == upper * LowSpace + entry.low

\* u32::wrapping_add on low pointers.
wrapping_add(a, b) == (a + b) % LowSpace

\* AllocationTable::find_first_invalid, called while the caller holds the
\* lock of entry `locked`: the first entry that can be locked and is invalid.
find_first_invalid(entries, upper, ptr, locked) ==
    IF upper = ptr \div LowSpace
    THEN IF \E i \in TableIndexes : i # locked /\ ~entries[i].valid
         THEN CHOOSE i \in TableIndexes :
                  /\ i # locked /\ ~entries[i].valid
                  /\ \A j \in TableIndexes : (j # locked /\ ~entries[j].valid) => i <= j
         ELSE None
    ELSE None  \* next_ref() of the only table

\* The loop of add_region: the entry whose next index is 0, found from
\* `current`; None when the loop runs into assert!(guard.valid()).
RECURSIVE LastEntry(_, _, _)
LastEntry(entries, current, fuel) ==
    IF fuel = 0 \/ ~entries[current].valid THEN None
    ELSE IF entries[current].next > 0 THEN LastEntry(entries, entries[current].next, fuel - 1)
    ELSE current

\* alloc's align_slack for an entry at low pointer low_ptr.
align_slack_mut(low_ptr, align) == low_ptr % align
align_slack_of(low_ptr, align) == (align - (low_ptr % align)) % align

\* The loop of alloc from entry `current` on: the table it leaves and the
\* pointer it returns (None for Option::None); panic when it runs into
\* assert!(guard.valid()).
RECURSIVE AllocFrom(_, _, _, _, _, _)
AllocFrom(entries, upper, current, size, align, fuel) ==
    LET guard == entries[current]
        align_slack == align_slack_of(guard.low, align)
        free_index == find_first_invalid(entries, upper,
                                         pointer(guard, upper) + align_slack + size, current)
        go_on == IF guard.next > 0 /\ fuel > 0
                 THEN AllocFrom(entries, upper, guard.next, size, align, fuel - 1)
                 ELSE [entries |-> entries, ptr |-> None, panic |-> FALSE]
    IN IF ~guard.valid THEN [entries |-> entries, ptr |-> None, panic |-> TRUE]
       ELSE IF guard.allocated THEN go_on
       ELSE IF guard.length = align_slack + size
       THEN [entries |-> [entries EXCEPT ![current].allocated = TRUE],
             ptr |-> pointer(guard, upper) + align_slack, panic |-> FALSE]
       ELSE IF guard.length > align_slack + size /\ free_index # None
       THEN [entries |-> [entries EXCEPT
                 ![free_index] = set_next(update(entries[free_index], TRUE, FALSE,
                                                 guard.length - align_slack - size,
                                                 wrapping_add(guard.low, align_slack + size)),
                                          guard.next),
                 ![current] = set_next(update(guard, TRUE, TRUE, align_slack + size, guard.low),
                                       free_index)],
             ptr |-> pointer(guard, upper) + align_slack, panic |-> FALSE]
       ELSE go_on

\* The loop of free from entry `current` on: the entry it marks free, None
\* when it ends in a panic (an invalid entry, or no allocated entry holds ptr).
RECURSIVE FreeFrom(_, _, _, _, _)
FreeFrom(entries, upper, current, ptr, fuel) ==
    LET guard == entries[current]
        ptr_start == pointer(guard, upper)
    IN IF ~guard.valid \/ fuel = 0 THEN None
       ELSE IF guard.allocated /\ ptr >= ptr_start /\ ptr < ptr_start + guard.length THEN current
       ELSE IF guard.next > 0 THEN FreeFrom(entries, upper, guard.next, ptr, fuel - 1)
       ELSE None

\* The condition under which coalesce_free_regions merges next_guard into guard.
CanMergeMut(guard, next_guard) ==
    /\ ~guard.allocated
    /\ ~next_guard.allocated
    /\ next_guard.valid
    /\ wrapping_add(guard.low, guard.length) = next_guard.low
    /\ guard.length + next_guard.length < COALESCE_LIMIT
CanMerge(guard, next_guard) ==
    /\ ~guard.allocated
    /\ ~next_guard.allocated
    /\ next_guard.valid
    /\ wrapping_add(guard.low, guard.length) = next_guard.low
    /\ guard.length + next_guard.length <= COALESCE_LIMIT

\* The loop of coalesce_free_regions from entry `current` on: the table it
\* leaves; panic when it runs into assert!(guard.valid()) or cannot lock the
\* next entry (todo!()).
RECURSIVE CoalesceFrom(_, _, _)
CoalesceFrom(entries, current, fuel) ==
    LET guard == entries[current]
        next_index == guard.next
        next_guard == entries[next_index]
    IN IF ~guard.valid \/ fuel = 0 THEN [entries |-> entries, panic |-> TRUE]
       ELSE IF next_index = 0 THEN [entries |-> entries, panic |-> FALSE]
       ELSE IF next_index = current THEN [entries |-> entries, panic |-> TRUE]
       ELSE IF CanMerge(guard, next_guard)
       THEN CoalesceFrom([entries EXCEPT
                ![current] = set_next(set_allocation_length(guard, guard.length + next_guard.length),
                                      next_guard.next),
                ![next_index].valid = FALSE], current, fuel - 1)
       ELSE CoalesceFrom(entries, next_index, fuel - 1)

\* AllocationTable::new(): every entry empty; nothing added, nothing allocated.
EmptyTable == [i \in TableIndexes |-> EmptyEntry]

\* What is kept of the operation that finished last: its arguments, the
\* pointer it returned or was given, and the table as coalesce found it.
NoByteOp == [op |-> "none", size |-> 0, align |-> 0, ptr |-> None, before |-> EmptyTable]

\* How far the operations so far follow the split/merge scenario of the
\* table's test (add one 4096-byte region; a = alloc(128, 128);
\* b = alloc(16, 4); c = alloc(16, 4); free(a); free(b); coalesce): the number
\* of its steps done and the pointers a, b and c, or OffScript once an
\* operation departed from it.
OffScript == [step |-> -1, a |-> None, b |-> None, c |-> None]
ScriptStart == [step |-> 0, a |-> None, b |-> None, c |-> None]
ScriptAfter(script, op, size, align, ptr) ==
    IF script.step = 0 /\ op = "add_region" /\ size = 4096
    THEN [script EXCEPT !.step = 1]
    ELSE IF script.step = 1 /\ op = "alloc" /\ <<size, align>> = <<128, 128>> /\ ptr # None
    THEN [script EXCEPT !.step = 2, !.a = ptr]
    ELSE IF script.step = 2 /\ op = "alloc" /\ <<size, align>> = <<16, 4>> /\ ptr # None
    THEN [script EXCEPT !.step = 3, !.b = ptr]
    ELSE IF script.step = 3 /\ op = "alloc" /\ <<size, align>> = <<16, 4>> /\ ptr # None
    THEN [script EXCEPT !.step = 4, !.c = ptr]
    ELSE IF script.step = 4 /\ op = "free" /\ ptr = script.a THEN [script EXCEPT !.step = 5]
    ELSE IF script.step = 5 /\ op = "free" /\ ptr = script.b THEN [script EXCEPT !.step = 6]
    ELSE IF script.step = 6 /\ op = "coalesce" THEN [script EXCEPT !.step = 7]
    ELSE OffScript

ByteNew ==
    /\ bt_entries = EmptyTable
    /\ pointer_upper_32 = 0
    /\ bt_regions = {}
    /\ bt_live = {}
    /\ bt_last = NoByteOp
    /\ bt_script = ScriptStart
    /\ bt_ops = 0

\* The caller performs one more operation on the table.
CountOp ==
    /\ bt_ops < MaxByteOps
    /\ bt_ops' = bt_ops + 1

\* The bytes of region r = <<base pointer, length>>.
RegionBytes(r) == r[1]..(r[1] + r[2] - 1)

\* add_region(region): the region is memory the table does not have yet.
\* The step is not taken where the source panics (no invalid entry is left,
\* or the walk runs into an invalid entry).
ByteAddRegion(ptr, len) ==
    /\ CountOp
    /\ Cardinality(bt_regions) < MaxRegions
    /\ \A r \in bt_regions : RegionBytes(r) \cap RegionBytes(<<ptr, len>>) = {}
    /\ LET low == ptr % LowSpace
           high == ptr \div LowSpace
           last == LastEntry(bt_entries, 0, ALLOCATION_TABLE_LENGTH)
           free_guard_index == IF last = None THEN None
                               ELSE find_first_invalid(bt_entries, pointer_upper_32, ptr, last)
       IN IF ~bt_entries[0].valid
          THEN /\ bt_entries' = [bt_entries EXCEPT
                      ![0] = set_next(update(bt_entries[0], TRUE, FALSE, len, low), 0)]
               /\ pointer_upper_32' = high
          ELSE /\ free_guard_index # None
               /\ bt_entries' = [bt_entries EXCEPT
                      ![free_guard_index] = update(set_next(bt_entries[free_guard_index], 0),
                                                   TRUE, FALSE, len, low),
                      ![last] = set_next(bt_entries[last], free_guard_index)]
               /\ UNCHANGED pointer_upper_32
    /\ bt_regions' = bt_regions \cup {<<ptr, len>>}
    /\ bt_last' = [NoByteOp EXCEPT !.op = "add_region", !.size = len, !.ptr = ptr]
    /\ bt_script' = ScriptAfter(bt_script, "add_region", len, 0, ptr)
    /\ UNCHANGED bt_live
    /\ UNCHANGED nonByteVars

\* alloc(size, align).
ByteAlloc(size, align) ==
    /\ CountOp
    /\ LET r == AllocFrom(bt_entries, pointer_upper_32, 0, size, align, ALLOCATION_TABLE_LENGTH)
       IN /\ ~r.panic
          /\ bt_entries' = r.entries
          /\ bt_live' = IF r.ptr # None THEN bt_live \cup {[ptr |-> r.ptr, size |-> size]}
                        ELSE bt_live
          /\ bt_last' = [NoByteOp EXCEPT !.op = "alloc", !.size = size, !.align = align,
                                         !.ptr = r.ptr]
          /\ bt_script' = ScriptAfter(bt_script, "alloc", size, align, r.ptr)
    /\ UNCHANGED <<pointer_upper_32, bt_regions>>
    /\ UNCHANGED nonByteVars

\* free(ptr) of a live allocation.
ByteFree(ptr) ==
    /\ CountOp
    /\ \E a \in bt_live : a.ptr = ptr
    /\ LET found == FreeFrom(bt_entries, pointer_upper_32, 0, ptr, ALLOCATION_TABLE_LENGTH)
       IN /\ found # None
          /\ bt_entries' = [bt_entries EXCEPT ![found].allocated = FALSE]
    /\ bt_last' = [NoByteOp EXCEPT !.op = "free", !.ptr = ptr]
    /\ bt_live' = {a \in bt_live : a.ptr # ptr}
    /\ bt_script' = ScriptAfter(bt_script, "free", 0, 0, ptr)
    /\ UNCHANGED <<pointer_upper_32, bt_regions>>
    /\ UNCHANGED nonByteVars

\* coalesce_free_regions().
ByteCoalesce ==
    /\ CountOp
    /\ LET r == CoalesceFrom(bt_entries, 0, 2 * ALLOCATION_TABLE_LENGTH)
       IN /\ ~r.panic
          /\ bt_entries' = r.entries
    /\ bt_last' = [NoByteOp EXCEPT !.op = "coalesce", !.before = bt_entries]
    /\ bt_script' = ScriptAfter(bt_script, "coalesce", 0, 0, None)
    /\ UNCHANGED <<pointer_upper_32, bt_regions, bt_live>>
    /\ UNCHANGED nonByteVars

ByteNext ==
    \/ \E ptr \in RegionBases, len \in RegionLengths : ByteAddRegion(ptr, len)
    \/ \E req \in AllocRequests : ByteAlloc(req[1], req[2])
    \/ \E a \in bt_live : ByteFree(a.ptr)
    \/ ByteCoalesce

(***************************************************************************)
(* AllocationTableEntry::lock and AllocationTableEntryGuard: the flags     *)
(* word of an entry under concurrent threads, one step per atomic          *)
(* operation on it.                                                        *)
(***************************************************************************)
LkThreads == 1..LockThreads
LkEntries == 0..(LockEntries - 1)

\* The masks of the flags word, as sets of bit positions.
LOCKED_BIT_MASK == {31}
VALID_BIT_MASK == {30}
ALLOCATED_BIT_MASK == {29}
ALLOCATION_LENGTH_MASK == 16..28
NEXT_ENTRY_INDEX_MASK == 0..15

\* The set bits of a u32, and a u32 shifted left (bits shifted out are lost).
BitsOf(n) == {i \in 0..(FLAG_BITS - 2) : (n \div (2 ^ i)) % 2 = 1}
shl(bits, k) == {i + k : i \in {j \in bits : j + k < FLAG_BITS}}

\* The values the setters are called with: next_pointer is a u16, length a usize.
NextPointers == {3, 65535}
Lengths == {8191, 8192 + 5}

\* AllocationTableEntry::lock: whether the fetch_or that read `read` took the lock.
lock_mut(read) == TRUE
lock(read) == read \cap LOCKED_BIT_MASK = {}

\* The bits set_next and set_allocation_length or into the flags.
next_bits(next_pointer) == BitsOf(next_pointer)
length_bits(length) == shl(BitsOf(length % 8192), 16)

NoSetter == [op |-> "none", entry |-> 0, bits |-> {}]
NoLockOp == [op |-> "none", thread |-> 0, entry |-> 0, ok |-> FALSE]

LockNew ==
    /\ lk_flags = [e \in LkEntries |-> {}]
    /\ lk_guards = [t \in LkThreads |-> {}]
    /\ lk_pc = [t \in LkThreads |-> NoSetter]
    /\ lk_last = NoLockOp

\* entry.lock(): one fetch_or; Some(guard) if the bit was clear.
LkLock(t, e) ==
    /\ lk_pc[t] = NoSetter
    /\ lk_flags' = [lk_flags EXCEPT ![e] = @ \cup LOCKED_BIT_MASK]
    /\ lk_guards' = IF lock(lk_flags[e]) THEN [lk_guards EXCEPT ![t] = @ \cup {e}] ELSE lk_guards
    /\ lk_last' = [op |-> "lock", thread |-> t, entry |-> e, ok |-> lock(lk_flags[e])]
    /\ UNCHANGED lk_pc
    /\ UNCHANGED nonLockVars

\* guard.set_valid(value) / guard.set_allocated(value): one fetch_or or fetch_and.
LkSetBit(t, e, mask, value, name) ==
    /\ lk_pc[t] = NoSetter
    /\ e \in lk_guards[t]
    /\ lk_flags' = [lk_flags EXCEPT ![e] = IF value THEN @ \cup mask ELSE @ \ mask]
    /\ lk_last' = [op |-> name, thread |-> t, entry |-> e, ok |-> TRUE]
    /\ UNCHANGED <<lk_guards, lk_pc>>
    /\ UNCHANGED nonLockVars
LkSetValid(t, e, value) == LkSetBit(t, e, VALID_BIT_MASK, value, "set_valid")
LkSetAllocated(t, e, value) == LkSetBit(t, e, ALLOCATED_BIT_MASK, value, "set_allocated")

\* The first half of guard.set_next / guard.set_allocation_length: the
\* fetch_and that clears the field.
LkClearField(t, e, mask, bits, name) ==
    /\ lk_pc[t] = NoSetter
    /\ e \in lk_guards[t]
    /\ lk_flags' = [lk_flags EXCEPT ![e] = @ \ mask]
    /\ lk_pc' = [lk_pc EXCEPT ![t] = [op |-> name, entry |-> e, bits |-> bits]]
    /\ UNCHANGED <<lk_guards, lk_last>>
    /\ UNCHANGED nonLockVars
LkSetNext(t, e, next_pointer) ==
    LkClearField(t, e, NEXT_ENTRY_INDEX_MASK, next_bits(next_pointer), "set_next")
LkSetAllocationLength(t, e, length) ==
    LkClearField(t, e, ALLOCATION_LENGTH_MASK, length_bits(length), "set_allocation_length")

\* The second half: the fetch_or that writes the new value of the field.
LkWriteField(t) ==
    /\ lk_pc[t] # NoSetter
    /\ lk_flags' = [lk_flags EXCEPT ![lk_pc[t].entry] = @ \cup lk_pc[t].bits]
    /\ lk_pc' = [lk_pc EXCEPT ![t] = NoSetter]
    /\ lk_last' = [op |-> lk_pc[t].op, thread |-> t, entry |-> lk_pc[t].entry, ok |-> TRUE]
    /\ UNCHANGED lk_guards
    /\ UNCHANGED nonLockVars

\* Drop of the guard: release_lock, one fetch_and.
LkDrop(t, e) ==
    /\ lk_pc[t] = NoSetter
    /\ e \in lk_guards[t]
    /\ lk_flags' = [lk_flags EXCEPT ![e] = @ \ LOCKED_BIT_MASK]
    /\ lk_guards' = [lk_guards EXCEPT ![t] = @ \ {e}]
    /\ lk_last' = [op |-> "drop", thread |-> t, entry |-> e, ok |-> TRUE]
    /\ UNCHANGED lk_pc
    /\ UNCHANGED nonLockVars

LockNext ==
    \E t \in LkThreads :
        \/ \E e \in LkEntries :
            \/ LkLock(t, e)
            \/ \E value \in BOOLEAN : LkSetValid(t, e, value)
            \/ \E value \in BOOLEAN : LkSetAllocated(t, e, value)
            \/ \E next_pointer \in NextPointers : LkSetNext(t, e, next_pointer)
            \/ \E length \in Lengths : LkSetAllocationLength(t, e, length)
            \/ LkDrop(t, e)
        \/ LkWriteField(t)

(***************************************************************************)
(* Sv39 PageTable (qor-riscv/src/memory/mmu). An address is a record of   *)
(* its page number (address >> 12) and its offset in the page (address &   *)
(* 0xfff); every call on the table is one step. alloc_page returns a fresh *)
(* table of invalid entries at a page nothing else uses.                   *)
(***************************************************************************)
Addr(page, offset) == [pn |-> page, off |-> offset]

\* LEVEL_SIZES[level] / PAGE_SIZE: pages of one entry at a level.
LEVEL_PAGES(level) == TABLE_ENTRIES ^ level

\* The address `pages` pages and `bytes` bytes after a.
AddrPlus(a, pages, bytes) ==
    Addr(a.pn + pages + (a.off + bytes) \div PAGE_SIZE, (a.off + bytes) % PAGE_SIZE)

\* Bits of LEVEL_0_MASK, LEVEL_1_MASK and LEVEL_2_MASK of map_range.
LEVEL_MASK_BITS == <<12, 24, 36>>

\* addr & LEVEL_n_MASK == 0.
masked_off(addr, level) ==
    addr.off = 0 /\ addr.pn % (2 ^ (LEVEL_MASK_BITS[level + 1] - 12)) = 0

\* EntryPermissionFlags, by their values.
PermNone == 0
PermReadWrite == 6
PermReadExecute == 10

\* VirtualAddress::vpn and VirtualAddress::page_offset.
vpn(va, index) == (va.pn \div (TABLE_ENTRIES ^ index)) % TABLE_ENTRIES
page_offset_mut(va) == 0
page_offset(va) == va.off

\* PhysicalAddress::ppn0 / ppn1 / ppn2.
ppn_of(pa, index) ==
    IF index = 2 THEN (pa.pn \div (TABLE_ENTRIES ^ 2)) % (2 ^ PPN2_MASK_BITS)
    ELSE (pa.pn \div (TABLE_ENTRIES ^ index)) % TABLE_ENTRIES

\* PageTableEntry: the valid bit, the permission bits, and the three ppn
\* fields as one page number.
invalid_entry == [valid |-> FALSE, perm |-> 0, ppn |-> 0]
construct_valid(ppn0, ppn1, ppn2, perm_flags) ==
    [valid |-> TRUE, perm |-> perm_flags,
     ppn |-> (ppn2 % (2 ^ PPN2_MASK_BITS)) * (TABLE_ENTRIES ^ 2)
             + (ppn1 % TABLE_ENTRIES) * TABLE_ENTRIES + (ppn0 % TABLE_ENTRIES)]
is_leaf(entry) == entry.perm # 0
physical_address(entry) == Addr(entry.ppn, 0)
ppn_level(entry, level) == Addr(entry.ppn - (entry.ppn % LEVEL_PAGES(level)), 0)

\* The table `self` lives at RootTable; alloc_page hands out the pages from
\* TablePool on, one after the other.
RootTable == 1023
TablePool == 1024
alloc_page(allocated) == TablePool + Len(allocated)

\* table.0[index], and the memory after table.0[index] = entry.
EntryAt(tables, table, index) ==
    IF table \in DOMAIN tables /\ index \in DOMAIN tables[table]
    THEN tables[table][index] ELSE invalid_entry
WithEntry(tables, table, index, entry) ==
    LET old == IF table \in DOMAIN tables THEN tables[table] ELSE <<>>
        new == IF entry.valid
               THEN [i \in DOMAIN old \cup {index} |-> IF i = index THEN entry ELSE old[i]]
               ELSE [i \in DOMAIN old \ {index} |-> old[i]]
    IN [t \in DOMAIN tables \cup {table} |-> IF t = table THEN new ELSE tables[t]]

\* The loop of PageTable::map with walking_reference at table.0[index] and
\* level_index still to run from the given value down to level; then the
\* write of the leaf. wild is TRUE where the walk takes the target of a leaf
\* for a table; follows is the number of entries the loop then still reads
\* from memory that holds no table.
RECURSIVE MapFrom(_, _, _, _, _, _, _)
MapFrom(tables, allocated, table, index, level_index, virt_addr, leaf) ==
    LET walking_reference == EntryAt(tables, table, index)
        allocated_page == Addr(alloc_page(allocated), 0)
        pointer_entry == construct_valid(ppn_of(allocated_page, 0), ppn_of(allocated_page, 1),
                                         ppn_of(allocated_page, 2), PermNone)
        installed == IF walking_reference.valid THEN walking_reference ELSE pointer_entry
        tables1 == IF walking_reference.valid THEN tables
                   ELSE WithEntry(WithEntry(tables, table, index, pointer_entry),
                                  allocated_page.pn, 0, invalid_entry)
        allocated1 == IF walking_reference.valid THEN allocated
                      ELSE Append(allocated, allocated_page.pn)
    IN IF level_index < leaf.level
       THEN [tables |-> WithEntry(tables, table, index, leaf.entry), allocated |-> allocated,
             wild |-> FALSE]
       ELSE IF is_leaf(installed)
       THEN [tables |-> tables, allocated |-> allocated, wild |-> TRUE,
             follows |-> level_index - leaf.level]
       ELSE MapFrom(tables1, allocated1, physical_address(installed).pn,
                    vpn(virt_addr, level_index), level_index - 1, virt_addr, leaf)

\* PageTable::map.
map(tables, allocated, virt_addr, phys_addr, perm_flags, level) ==
    MapFrom(tables, allocated, RootTable, vpn(virt_addr, 2), 1, virt_addr,
            [level |-> level,
             entry |-> construct_valid(ppn_of(phys_addr, 0), ppn_of(phys_addr, 1),
                                       ppn_of(phys_addr, 2), perm_flags)])

\* The level map_range chooses, None where it panics.
level_for(virt_addr, phys_addr, range_length) ==
    IF range_length >= LEVEL_PAGES(2) /\ masked_off(virt_addr, 2) /\ masked_off(phys_addr, 2)
    THEN 2
    ELSE IF range_length >= LEVEL_PAGES(1) /\ masked_off(virt_addr, 1) /\ masked_off(phys_addr, 1)
    THEN 1
    ELSE IF range_length >= LEVEL_PAGES(0) /\ masked_off(virt_addr, 0) /\ masked_off(phys_addr, 0)
    THEN 0
    ELSE None

\* One iteration of the loop of PageTable::map_range. `run` holds the
\* loop's variables, the iterations made so far (steps), and whether the loop
\* has ended in the panic or in a walk through a leaf.
MapRangeStep(run, perm_flags) ==
    LET level == level_for(run.va, run.pa, run.remaining)
        r == map(run.tables, run.allocated, run.va, run.pa, perm_flags, level)
        step == [level |-> level, va |-> run.va, pa |-> run.pa, remaining |-> run.remaining]
    IN IF level = None THEN [run EXCEPT !.panic = TRUE]
       ELSE IF r.wild THEN [run EXCEPT !.wild = TRUE]
       ELSE [run EXCEPT !.tables = r.tables, !.allocated = r.allocated,
                        !.va = AddrPlus(run.va, LEVEL_PAGES(level), 0),
                        !.pa = AddrPlus(run.pa, LEVEL_PAGES(level), 0),
                        !.remaining = run.remaining - LEVEL_PAGES(level),
                        !.steps = Append(run.steps, step)]

\* The loop of PageTable::map_range: up to `iterations` iterations from `run`
\* on, ending when range_length is 0 (or in the panic). The iterations are
\* taken in two halves, one after the other.
RECURSIVE MapRangeLoop(_, _, _)
MapRangeLoop(run, perm_flags, iterations) ==
    IF run.remaining = 0 \/ run.panic \/ run.wild THEN run
    ELSE IF iterations = 1 THEN MapRangeStep(run, perm_flags)
    ELSE LET half == iterations \div 2
             first == MapRangeLoop(run, perm_flags, half)
         IN MapRangeLoop(first, perm_flags, iterations - half)

\* PageTable::map_range; every iteration maps at least one page.
MapRangeFrom(tables, allocated, virt_addr, phys_addr, range_length, perm_flags, steps) ==
    MapRangeLoop([tables |-> tables, allocated |-> allocated, va |-> virt_addr,
                  pa |-> phys_addr, remaining |-> range_length, steps |-> steps,
                  panic |-> FALSE, wild |-> FALSE], perm_flags, range_length + 1)

\* Option::None of a PhysicalAddress.
NoAddr == Addr(None, None)

\* The loop of PageTable::virtual_to_physical_address with walking_reference
\* at table.0[index].
RECURSIVE TranslateFrom(_, _, _, _, _)
TranslateFrom(tables, table, index, level_index, virt_addr) ==
    LET walking_reference == EntryAt(tables, table, index)
    IN IF ~walking_reference.valid THEN NoAddr
       ELSE IF is_leaf(walking_reference)
       THEN Addr(ppn_level(walking_reference, level_index).pn, page_offset(virt_addr))
       ELSE IF level_index = 0 THEN NoAddr
       ELSE TranslateFrom(tables, physical_address(walking_reference).pn,
                          vpn(virt_addr, level_index - 1), level_index - 1, virt_addr)

\* PageTable::virtual_to_physical_address.
virtual_to_physical_address(tables, virt_addr) ==
    TranslateFrom(tables, RootTable, vpn(virt_addr, 2), 2, virt_addr)

\* The indexes of the valid non-leaf entries of a table.
PointerIndexes(tables, table) ==
    {i \in 0..(TABLE_ENTRIES - 1) :
        EntryAt(tables, table, i).valid /\ ~is_leaf(EntryAt(tables, table, i))}

\* The inner loop of PageTable::unmap_all over the entries `todo` of the
\* level-1 table, in index order.
RECURSIVE FreeChildren(_, _, _, _)
FreeChildren(tables, level1_table, todo, freed) ==
    IF todo = {} THEN [tables |-> tables, freed |-> freed]
    ELSE LET level1 == CHOOSE i \in todo : \A j \in todo : i <= j
             address == physical_address(EntryAt(tables, level1_table, level1)).pn
         IN FreeChildren(WithEntry(tables, level1_table, level1, invalid_entry), level1_table,
                         todo \ {level1}, Append(freed, address))

\* The outer loop of PageTable::unmap_all over the entries `todo` of the
\* top table, in index order.
RECURSIVE UnmapFrom(_, _, _)
UnmapFrom(tables, todo, freed) ==
    IF todo = {} THEN [tables |-> tables, freed |-> freed]
    ELSE LET level2 == CHOOSE i \in todo : \A j \in todo : i <= j
             level1_table == physical_address(EntryAt(tables, RootTable, level2)).pn
             tables1 == WithEntry(tables, RootTable, level2, invalid_entry)
             inner == FreeChildren(tables1, level1_table,
                                   PointerIndexes(tables1, level1_table), freed)
         IN UnmapFrom(inner.tables, todo \ {level2}, Append(inner.freed, level1_table))

\* The calls made on the table: map(virt_addr, phys_addr, perm_flags, level)
\* and map_range(virt_addr, phys_addr, range_length, perm_flags), as <<page
\* number of virt_addr, its offset, page number of phys_addr, its offset,
\* level or number of pages, perm_flags>>.
MapCalls ==
    {<<262144, 0, 524288, 0, 0, PermReadWrite>>,
     <<262144, 0, 524288, 0, 1, PermReadExecute>>,
     <<262144, 0, 524288, 0, 2, PermReadWrite>>,
     <<524288, 0, 655360, 0, 0, PermReadWrite>>,
     <<524288, 0, 655360, 0, 1, PermReadWrite>>}
MapRangeCalls ==
    {<<524288, 0, 524288, 0, 512, PermReadWrite>>,    \* 0x8000_0000, identity, 2 MiB
     <<524800, 0, 524800, 0, 512, PermReadWrite>>,    \* 0x8020_0000, identity, 2 MiB
     <<528384, 0, 528384, 0, 513, PermReadExecute>>,  \* 0x8100_0000, identity, 2 MiB and a page
     <<525313, 0, 458753, 0, 3, PermReadWrite>>,      \* 0x8040_1000 -> 0x7000_1000, 3 pages
     <<525320, 8, 458760, 0, 1, PermReadWrite>>,      \* virt_addr not aligned to a page
     <<0, 0, 16777216, 0, 262144, PermReadWrite>>}    \* 0 -> 0x10_0000_0000, 1 GiB

NoMmuOp == [op |-> "none", va |-> Addr(0, 0), pa |-> Addr(0, 0), pages |-> 0, level |-> 0,
            perm |-> 0, steps |-> <<>>, panic |-> FALSE, allocated |-> 0, freed |-> 0]

\* PageTable::empty().
MmuNew ==
    /\ mm_tables = [t \in {RootTable} |-> <<>>]
    /\ mm_allocated = <<>>
    /\ mm_freed = <<>>
    /\ mm_ranges = <<>>
    /\ mm_last = NoMmuOp
    /\ mm_ops = 0

\* self.map(virt_addr, phys_addr, gu_flags, perm_flags, level, alloc_page),
\* where the walk goes through pointer entries only.
MmMap(virt_addr, phys_addr, perm_flags, level) ==
    /\ mm_ops < MaxMmuOps
    /\ LET r == map(mm_tables, mm_allocated, virt_addr, phys_addr, perm_flags, level)
       IN /\ ~r.wild
          /\ mm_tables' = r.tables
          /\ mm_allocated' = r.allocated
    /\ mm_ranges' = Append(mm_ranges, [op |-> "map", va |-> virt_addr, pa |-> phys_addr,
                                       pages |-> LEVEL_PAGES(level)])
    /\ mm_last' = [NoMmuOp EXCEPT !.op = "map", !.va = virt_addr, !.pa = phys_addr,
                                  !.pages = LEVEL_PAGES(level), !.level = level,
                                  !.perm = perm_flags, !.allocated = Len(mm_allocated),
                                  !.freed = Len(mm_freed)]
    /\ mm_ops' = mm_ops + 1
    /\ UNCHANGED mm_freed
    /\ UNCHANGED nonMmuVars

\* self.map(...) where the walk meets a valid leaf entry above `level`: it
\* takes the page the leaf maps for a table (walking_reference.is_valid() is
\* the only test of the loop). What that page holds is data, so each entry the
\* loop reads from there on is valid or not by choice: `fresh` is the number
\* of them that read as invalid and get a table from alloc_page, linked from
\* the data page only. The last write lands outside the tables.
MmMapThroughLeaf(virt_addr, phys_addr, perm_flags, level, fresh) ==
    /\ mm_ops < MaxMmuOps
    /\ LET r == map(mm_tables, mm_allocated, virt_addr, phys_addr, perm_flags, level)
       IN /\ r.wild
          /\ fresh <= r.follows
          /\ mm_allocated' = mm_allocated \o [i \in 1..fresh |-> alloc_page(mm_allocated) + i - 1]
    /\ mm_last' = [NoMmuOp EXCEPT !.op = "map_through_leaf", !.va = virt_addr, !.pa = phys_addr,
                                  !.pages = LEVEL_PAGES(level), !.level = level,
                                  !.perm = perm_flags, !.allocated = Len(mm_allocated),
                                  !.freed = Len(mm_freed)]
    /\ mm_ops' = mm_ops + 1
    /\ UNCHANGED <<mm_tables, mm_freed, mm_ranges>>
    /\ UNCHANGED nonMmuVars

\* self.map_range(virt_addr, phys_addr, range_length, gu_flags, perm_flags,
\* alloc_page); where it panics it has mapped nothing. Calls whose walk goes
\* through a leaf are left out.
MmMapRange(virt_addr, phys_addr, range_length, perm_flags) ==
    /\ mm_ops < MaxMmuOps
    /\ LET r == MapRangeFrom(mm_tables, mm_allocated, virt_addr, phys_addr, range_length,
                             perm_flags, <<>>)
       IN /\ ~r.wild
          /\ mm_tables' = r.tables
          /\ mm_allocated' = r.allocated
          /\ mm_ranges' = IF r.panic THEN mm_ranges
                          ELSE Append(mm_ranges, [op |-> "map_range", va |-> virt_addr,
                                                  pa |-> phys_addr, pages |-> range_length])
          /\ mm_last' = [NoMmuOp EXCEPT !.op = "map_range", !.va = virt_addr, !.pa = phys_addr,
                                        !.pages = range_length, !.perm = perm_flags,
                                        !.steps = r.steps, !.panic = r.panic,
                                        !.allocated = Len(mm_allocated),
                                        !.freed = Len(mm_freed)]
    /\ mm_ops' = mm_ops + 1
    /\ UNCHANGED mm_freed
    /\ UNCHANGED nonMmuVars

\* self.unmap_all(free_page).
MmUnmapAll ==
    /\ mm_ops < MaxMmuOps
    /\ LET r == UnmapFrom(mm_tables, PointerIndexes(mm_tables, RootTable), mm_freed)
       IN /\ mm_tables' = r.tables
          /\ mm_freed' = r.freed
    /\ mm_last' = [NoMmuOp EXCEPT !.op = "unmap_all", !.allocated = Len(mm_allocated),
                                  !.freed = Len(mm_freed)]
    /\ mm_ops' = mm_ops + 1
    /\ UNCHANGED <<mm_allocated, mm_ranges>>
    /\ UNCHANGED nonMmuVars

MmuNext ==
    \/ \E c \in MapCalls : MmMap(Addr(c[1], c[2]), Addr(c[3], c[4]), c[6], c[5])
    \/ \E c \in MapCalls, fresh \in 0..1 :
          MmMapThroughLeaf(Addr(c[1], c[2]), Addr(c[3], c[4]), c[6], c[5], fresh)
    \/ \E c \in MapRangeCalls : MmMapRange(Addr(c[1], c[2]), Addr(c[3], c[4]), c[5], c[6])
    \/ MmUnmapAll

(***************************************************************************)
(* SimpleExecutor (qor-core/src/tasks): one step of the model per poll of  *)
(* a task; spawn, step, run and run_until_pending are called by the owner  *)
(* of the executor, one after the other.                                   *)
(***************************************************************************)
TaskIds == 1..MaxTasks

\* Polls in one behaviour; more than the futures that become Ready need.
MaxPolls == MaxTasks * (MaxPending + 1) + 1

\* The futures spawned: task_yield(), a future that returns Pending `left`
\* more times and then Ready, and a future that never becomes Ready.
NoFuture == [kind |-> "none", flag |-> FALSE, left |-> 0]
Futures ==
    {[kind |-> "yield", flag |-> FALSE, left |-> 0], [kind |-> "never", flag |-> FALSE, left |-> 0]}
        \cup {[kind |-> "count", flag |-> FALSE, left |-> n] : n \in 0..MaxPending}

\* Future::poll: whether it is Ready, and the future afterwards.
poll(future) ==
    IF future.kind = "yield"
    THEN IF future.flag THEN [ready |-> TRUE, future |-> future]
         ELSE [ready |-> FALSE, future |-> [future EXCEPT !.flag = TRUE]]
    ELSE IF future.kind = "count"
    THEN IF future.left = 0 THEN [ready |-> TRUE, future |-> future]
         ELSE [ready |-> FALSE, future |-> [future EXCEPT !.left = @ - 1]]
    ELSE [ready |-> FALSE, future |-> future]

\* VecDeque::push_back.
push_back_mut(queue, task) == <<task>> \o queue
push_back(queue, task) == Append(queue, task)

\* The queue step() leaves after it popped `task` and polled it.
requeue_mut(rest, task, ready) == push_back(rest, task)
requeue(rest, task, ready) == IF ready THEN rest ELSE push_back(rest, task)

\* Whether run_until_pending starts another sweep after one with this flag.
sweep_again_mut(flag) == FALSE
sweep_again(flag) == flag

Idle == [mode |-> "none", remaining |-> 0, i |-> 0, flag |-> FALSE, sweeps |-> <<>>]
Sweeping(mode, queue, sweeps) ==
    [mode |-> mode, remaining |-> Len(queue), i |-> 0, flag |-> FALSE, sweeps |-> sweeps]
Returned(op, ret, sweeps) == [op |-> op, ret |-> ret, sweeps |-> sweeps]

\* run_until_pending is entered (directly, or by the loop of run): it
\* returns false on an empty queue, which also ends run; else it starts its
\* first sweep.
Enter(mode, queue, last) ==
    IF queue = <<>> THEN [ctl |-> Idle, last |-> Returned(mode, "false", <<>>)]
    ELSE [ctl |-> Sweeping(mode, queue, <<>>), last |-> last]

\* run_until_pending returns true; under run it is entered again.
ReturnTrue(mode, queue, sweeps) ==
    IF mode = "run"
    THEN Enter(mode, queue, Returned("run_until_pending", "true", sweeps))
    ELSE [ctl |-> Idle, last |-> Returned(mode, "true", sweeps)]

\* The for loop of run_until_pending is through with `flag`: break true, or
\* the next iteration of 'outer, whose for loop is empty on an empty queue.
AfterSweep(mode, queue, flag, sweeps, last) ==
    IF sweep_again(flag)
    THEN IF queue = <<>> THEN ReturnTrue(mode, queue, Append(Append(sweeps, flag), FALSE))
         ELSE [ctl |-> Sweeping(mode, queue, Append(sweeps, flag)), last |-> last]
    ELSE ReturnTrue(mode, queue, Append(sweeps, flag))

ExecNew ==
    /\ ex_queue = <<>>
    /\ ex_future = [t \in TaskIds |-> NoFuture]
    /\ ex_spawned = 0
    /\ ex_ctl = Idle
    /\ ex_log = <<>>
    /\ ex_last = Returned("none", "None", <<>>)

\* The body of step() on a non-empty queue.
PollFront ==
    LET task == Head(ex_queue)
        p == poll(ex_future[task])
    IN /\ Len(ex_log) < MaxPolls
       /\ ex_queue' = requeue(Tail(ex_queue), task, p.ready)
       /\ ex_future' = [ex_future EXCEPT ![task] = p.future]
       /\ ex_log' = Append(ex_log, [task |-> task, future |-> ex_future[task],
                                     ready |-> p.ready, rest |-> Tail(ex_queue)])

\* executor.spawn(Task::new(future)).
ExSpawn(future) ==
    /\ ex_ctl = Idle
    /\ ex_spawned < MaxTasks
    /\ ex_spawned' = ex_spawned + 1
    /\ ex_queue' = push_back(ex_queue, ex_spawned + 1)
    /\ ex_future' = [ex_future EXCEPT ![ex_spawned + 1] = future]
    /\ UNCHANGED <<ex_ctl, ex_log, ex_last>>
    /\ UNCHANGED nonExecVars

\* executor.step(), called by the owner.
ExStep ==
    /\ ex_ctl = Idle
    /\ IF ex_queue = <<>>
       THEN /\ ex_last' = Returned("step", "None", <<>>)
            /\ UNCHANGED <<ex_queue, ex_future, ex_log>>
       ELSE /\ PollFront
            /\ ex_last' = Returned("step", IF poll(ex_future[Head(ex_queue)]).ready
                                             THEN "Some(true)" ELSE "Some(false)", <<>>)
    /\ UNCHANGED <<ex_ctl, ex_spawned>>
    /\ UNCHANGED nonExecVars

\* executor.run_until_pending() / executor.run() is called.
ExCall(mode) ==
    /\ ex_ctl = Idle
    /\ ex_ctl' = Enter(mode, ex_queue, ex_last).ctl
    /\ ex_last' = Enter(mode, ex_queue, ex_last).last
    /\ UNCHANGED <<ex_queue, ex_future, ex_spawned, ex_log>>
    /\ UNCHANGED nonExecVars
ExRunUntilPending == ExCall("run_until_pending")
ExRun == ExCall("run")

\* One iteration of the for loop of run_until_pending: a step(), and what
\* follows it up to the next step().
ExSweepStep ==
    /\ ex_ctl # Idle
    /\ IF ex_queue = <<>>
       THEN /\ ex_ctl' = Idle
            /\ ex_last' = Returned(ex_ctl.mode, "false", ex_ctl.sweeps)
            /\ UNCHANGED <<ex_queue, ex_future, ex_log>>
       ELSE /\ PollFront
            /\ LET flag == ex_ctl.flag \/ poll(ex_future[Head(ex_queue)]).ready
                   after == AfterSweep(ex_ctl.mode, ex_queue', flag, ex_ctl.sweeps, ex_last)
               IN IF ex_ctl.i + 1 < ex_ctl.remaining
                  THEN /\ ex_ctl' = [ex_ctl EXCEPT !.i = @ + 1, !.flag = flag]
                       /\ UNCHANGED ex_last
                  ELSE /\ ex_ctl' = after.ctl
                       /\ ex_last' = after.last
    /\ UNCHANGED ex_spawned
    /\ UNCHANGED nonExecVars

ExecNext ==
    \/ \E future \in Futures : ExSpawn(future)
    \/ ExStep
    \/ ExRunUntilPending
    \/ ExRun
    \/ ExSweepStep

(***************************************************************************)
(* Syscalls (qor-os/src/syscalls, qor-os/src/process): the page table of   *)
(* the process is mm_tables; a register is the set of its one bits.        *)
(***************************************************************************)
\* The bits of a value below 2^30 as a 64 bit word, and of a negative one
\* in two's complement.
WordBits == 30
u64_bits(n) == {i \in 0..(WordBits - 1) : (n \div (2 ^ i)) % 2 = 1}
i64_to_u64(e) == IF e >= 0 THEN u64_bits(e) ELSE (0..(XLEN - 1)) \ u64_bits((-e) - 1)

\* impl From<SyscallError> for isize.
isize_from(error) == IF error = "BadFileDescriptor" THEN 9 ELSE 14

\* ProcessData::new: descriptors 0 and 1, both the UART.
file_descriptors == {0, 1}

\* SyscallNumber::from_number.
SyscallNumbers == {0, 1, 2, 3, 4, 5, 6, 60}

\* Process::kernel_pointer: Fault when the address does not translate.
kernel_pointer(tables, address) ==
    LET p == virtual_to_physical_address(tables, address)
    IN IF p = NoAddr THEN [ok |-> FALSE, value |-> NoAddr, error |-> "Fault"]
       ELSE [ok |-> TRUE, value |-> p, error |-> "none"]

\* handlers::write::write: the result, and the send_bytes call it makes.
write(tables, file_descriptor, buffer, length) ==
    LET ptr == kernel_pointer(tables, buffer)
    IN IF ~ptr.ok THEN [ok |-> FALSE, value |-> 0, error |-> ptr.error, sent |-> <<>>]
       ELSE IF file_descriptor \notin file_descriptors
       THEN [ok |-> FALSE, value |-> 0, error |-> "BadFileDescriptor", sent |-> <<>>]
       ELSE [ok |-> TRUE, value |-> length, error |-> "none",
             sent |-> <<[ptr |-> ptr.value, length |-> length]>>]

\* The map_page_sequence calls: the stack at 0x1_0000_0000 and a segment of
\* the program at 0x1_0000, as <<page number, pages>>.
PageSequences == {<<1048576, 2>>, <<16, 1>>}
\* The register values of the calls: x17, x10, x11, x12.
Numbers == {SYS_WRITE, 0, 99}
Descriptors == {1, 2}
Buffers == {Addr(1048576, 16), Addr(1048577, 4095), Addr(16, 0), Addr(1048578, 0)}
ByteCounts == {0, 5}

NoSyscall == [number |-> 0, fd |-> 0, buffer |-> Addr(0, 0), length |-> 0, result |-> "none"]

SysNew ==
    /\ sy_x10 = {}
    /\ sy_uart = <<>>
    /\ sy_pages = 0
    /\ sy_last = NoSyscall
    /\ sy_ops = 0

\* proc.map_page_sequence(virtual_address, length, Read | Write).
SyMapPageSequence(virtual_address, length) ==
    /\ sy_ops < MaxSysOps
    /\ sy_last.result # "panic"
    /\ LET r == MapRangeFrom(mm_tables, mm_allocated, Addr(virtual_address, 0),
                             Addr(UserPool + sy_pages, 0), length, PermReadWrite, <<>>)
       IN /\ ~r.wild /\ ~r.panic
          /\ mm_tables' = r.tables
          /\ mm_allocated' = r.allocated
    /\ sy_pages' = sy_pages + length
    /\ sy_ops' = sy_ops + 1
    /\ UNCHANGED <<sy_x10, sy_uart, sy_last>>
    /\ UNCHANGED <<mm_freed, mm_ranges, mm_last, mm_ops>>
    /\ UNCHANGED nonSysMmuVars

\* raw_handle_syscall(proc) with x17 = number, x10 = fd, x11 = buffer and
\* x12 = length.
SyRawHandleSyscall(number, fd, buffer, length) ==
    /\ sy_ops < MaxSysOps
    /\ sy_last.result # "panic"
    /\ sy_ops' = sy_ops + 1
    /\ IF number \notin SyscallNumbers \/ number # SYS_WRITE
       THEN /\ sy_last' = [number |-> number, fd |-> fd, buffer |-> buffer,
                           length |-> length, result |-> "panic"]
            /\ UNCHANGED <<sy_x10, sy_uart>>
       ELSE LET result == write(mm_tables, fd, buffer, length)
            IN /\ sy_uart' = sy_uart \o result.sent
               /\ sy_x10' = IF result.ok THEN u64_bits(result.value)
                            ELSE i64_to_u64(isize_from(result.error))
               /\ sy_last' = [number |-> number, fd |-> fd, buffer |-> buffer,
                              length |-> length,
                              result |-> IF result.ok THEN "Ok" ELSE result.error]
    /\ UNCHANGED sy_pages
    /\ UNCHANGED nonSysVars

SysNext ==
    \/ \E call \in PageSequences : SyMapPageSequence(call[1], call[2])
    \/ \E number \in Numbers, fd \in Descriptors, buffer \in Buffers, length \in ByteCounts :
            SyRawHandleSyscall(number, fd, buffer, length)

(***************************************************************************)
(* Process (qor-os/src/process): one process, whose page table is          *)
(* mm_tables with the table of its box at RootTable. The pages of the      *)
(* bitmap allocator are those of the boxes and page sequences (pr_live)    *)
(* and those PAGE_ALLOC_FUNCTION handed to the page table (mm_allocated).  *)
(* The sections of the kernel image, whose bounds the linker gives, are    *)
(* left out of identity_map_kernel.                                        *)
(***************************************************************************)
ProcPool == UserPool..(UserPool + PoolPages - 1)
PagesFrom(base, count) == base..(base + count - 1)

\* get_page_bitmap_allocator().allocate(count): the lowest run of free
\* pages, None when there is none.
bitmap_allocate(live, count) ==
    LET fits == {b \in ProcPool : \A p \in PagesFrom(b, count) : p \in ProcPool /\ p \notin live}
    IN IF fits = {} THEN None ELSE CHOOSE b \in fits : \A c \in fits : b <= c

\* MemoryUnit::convert from bytes to pages.
convert(bytes) == (bytes + PAGE_SIZE - 1) \div PAGE_SIZE

\* PermissionFlags -> EntryPermissionFlags: Read is 2, Write 4, Execute 8.
entry_permissions(flags) ==
    (IF "R" \in flags THEN 2 ELSE 0) + (IF "W" \in flags THEN 4 ELSE 0)
        + (IF "X" \in flags THEN 8 ELSE 0)

\* The id_map_range calls of identity_map_kernel on the devices: UART,
\* CLINT, PLIC and VirtIO, as <<first page, pages>>.
KernelRanges == <<<<65536, 1>>, <<8192, 16>>, <<49152, 4096>>, <<65536, 9>>>>

RECURSIVE IdMapRanges(_, _)
IdMapRanges(run, i) ==
    IF i > Len(KernelRanges) THEN run
    ELSE LET r == MapRangeFrom(run.tables, run.allocated, Addr(KernelRanges[i][1], 0),
                               Addr(KernelRanges[i][1], 0), KernelRanges[i][2],
                               PermReadWrite, <<>>)
         IN IdMapRanges([tables |-> r.tables, allocated |-> r.allocated], i + 1)

\* identity_map_kernel on the empty table of a new process.
identity_map_kernel ==
    IdMapRanges([tables |-> [t \in {RootTable} |-> <<>>], allocated |-> <<>>], 1)

NoProcess ==
    [state |-> "none", by |-> "none", root |-> <<>>, trap |-> <<>>, stack |-> <<>>,
     mapped |-> <<>>, copies |-> <<>>, elf |-> <<>>]

\* The state a construction works on.
Build(live, tables, allocated, proc, bump) ==
    [live |-> live, tables |-> tables, allocated |-> allocated, proc |-> proc,
     bump |-> bump, panic |-> FALSE, wild |-> FALSE, last |-> <<>>]

\* MemoryStatistics::alloc_page_box of a value of one page.
alloc_page_box(st) ==
    LET page == bitmap_allocate(st.live, 1)
    IN IF st.panic THEN st
       ELSE IF page = None THEN [st EXCEPT !.panic = TRUE]
       ELSE [st EXCEPT !.live = @ \cup {page}, !.last = <<page>>]

\* MemoryStatistics::map_page_sequence; the sequence is left in `last`.
map_page_sequence(st, virtual_address, length, permissions) ==
    LET base == bitmap_allocate(st.live, length)
        r == MapRangeFrom(st.tables, st.allocated, virtual_address, Addr(base, 0), length,
                          permissions, <<>>)
    IN IF st.panic THEN st
       ELSE IF base = None THEN [st EXCEPT !.panic = TRUE]
       ELSE IF r.wild THEN [st EXCEPT !.wild = TRUE, !.panic = TRUE]
       ELSE IF r.panic THEN [st EXCEPT !.panic = TRUE]
       ELSE [st EXCEPT !.live = @ \cup PagesFrom(base, length), !.tables = r.tables,
                       !.allocated = r.allocated,
                       !.last = <<[va |-> virtual_address, base |-> base, pages |-> length,
                                   perm |-> permissions]>>]

\* ExecutionState::from_components and Process::from_components: the trap
\* stack from the bump allocator, the trap frame in a box, the stack at
\* 0x1_0000_0000.
from_components(st, root, stack_size, by) ==
    LET framed == alloc_page_box([st EXCEPT !.bump = @ + 2])
        stacked == map_page_sequence(framed, Addr(1048576, 0), stack_size, PermReadWrite)
    IN IF stacked.panic THEN stacked
       ELSE [stacked EXCEPT !.proc = [NoProcess EXCEPT !.state = "live", !.by = by,
                                                       !.root = root, !.trap = framed.last,
                                                       !.stack = stacked.last]]

\* Process::from_fn_ptr up to from_components: the page table in a box, the
\* kernel mapped into it.
new_page_table(live, bump) ==
    LET boxed == alloc_page_box(Build(live, <<>>, <<>>, NoProcess, bump))
    IN IF boxed.panic THEN boxed
       ELSE [boxed EXCEPT !.tables = identity_map_kernel.tables,
                          !.allocated = identity_map_kernel.allocated]

from_fn_ptr(live, bump, stack_size) ==
    LET table == new_page_table(live, bump)
    IN from_components(table, table.last, stack_size, "from_fn_ptr")

\* The loop of Process::from_elf_file over elf.program_headers from i on.
RECURSIVE LoadHeaders(_, _, _)
LoadHeaders(st, program_headers, i) ==
    IF i > Len(program_headers) \/ st.panic THEN st
    ELSE LET program_header == program_headers[i]
             virtual_address == Addr(program_header.virtual_addr.pn, 0)
             offset_in_page == program_header.virtual_addr.off
             file_length == program_header.file_size
             length == convert(program_header.memory_size)
             mapped == map_page_sequence(st, virtual_address, length,
                                         entry_permissions(program_header.flags))
             copied == [mapped EXCEPT
                           !.proc.mapped = Append(@, mapped.last[1]),
                           !.proc.copies = Append(@, [base |-> mapped.last[1].base,
                                                      page_offset |-> offset_in_page,
                                                      file_offset |-> program_header.offset,
                                                      file_length |-> file_length])]
         IN IF program_header.header_type # "Load" THEN LoadHeaders(st, program_headers, i + 1)
            ELSE IF mapped.panic THEN mapped
            ELSE IF offset_in_page + file_length > length * PAGE_SIZE
            THEN [mapped EXCEPT !.panic = TRUE]
            ELSE LoadHeaders(copied, program_headers, i + 1)

from_elf_file(live, bump, elf, stack_size) ==
    LET table == new_page_table(live, bump)
        proc == from_components(table, table.last, stack_size, "from_elf_file")
    IN LoadHeaders([proc EXCEPT !.proc.elf = elf], elf, 1)

\* The pages the drop of the process frees: the boxes of the page table and
\* of the trap frame and the page sequences.
RECURSIVE SequencePages(_, _)
SequencePages(sequences, i) ==
    IF i > Len(sequences) THEN {}
    ELSE PagesFrom(sequences[i].base, sequences[i].pages) \cup SequencePages(sequences, i + 1)
DroppedPages(proc) ==
    {proc.root[1], proc.trap[1]} \cup SequencePages(proc.stack, 1)
        \cup SequencePages(proc.mapped, 1)

\* Program headers: type, p_vaddr, p_memsz, p_filesz, p_offset, flags.
Header(header_type, page, offset, memory_size, file_size, file_offset, flags) ==
    [header_type |-> header_type, virtual_addr |-> Addr(page, offset),
     memory_size |-> memory_size, file_size |-> file_size, offset |-> file_offset,
     flags |-> flags]
ElfFiles ==
    {<<Header("Load", 16, 0, 4096, 100, 64, {"R", "X"})>>,
     <<Header("Load", 16, 0, 5000, 4500, 64, {"R", "X"}),
       Header("Load", 32, 0, 100, 0, 0, {"R", "W"})>>,
     <<Header("Load", 16, 16, 100, 100, 64, {"R", "X"})>>,
     <<Header("Load", 16, 2048, 4096, 256, 64, {"R", "X"})>>,
     <<Header("Load", 16, 3000, 2000, 2000, 64, {"R", "W"})>>,
     <<Header("Note", 48, 0, 64, 64, 200, {"R"}),
       Header("Load", 16, 0, 100, 100, 264, {"R", "X"})>>}
\* The map_page_sequence calls on a process: <<page, pages>>.
ProcSequences == {<<64, 1>>, <<16, 2>>}

ProcNew ==
    /\ pr_live = {}
    /\ pr_proc = NoProcess
    /\ pr_before = {}
    /\ pr_bump = 0
    /\ pr_ops = 0

\* The pages of the bitmap allocator in use.
BitmapAllocated ==
    pr_live \cup {mm_allocated[i] : i \in {j \in 1..Len(mm_allocated) :
                                            \A k \in 1..Len(mm_freed) : mm_freed[k] # mm_allocated[j]}}

\* A construction ends: the process, or a panic.
Constructed(st) ==
    /\ ~st.wild
    /\ pr_before' = BitmapAllocated
    /\ pr_live' = st.live
    /\ pr_bump' = st.bump
    /\ mm_tables' = st.tables
    /\ mm_allocated' = st.allocated
    /\ pr_proc' = IF st.panic THEN [st.proc EXCEPT !.state = "panic"] ELSE st.proc
    /\ pr_ops' = pr_ops + 1
    /\ UNCHANGED <<mm_freed, mm_ranges, mm_last, mm_ops>>
    /\ UNCHANGED nonProcMmuVars

\* PageSequence::alloc(length) by the kernel, before the process exists.
PrPageSequenceAlloc(length) ==
    /\ pr_proc.state = "none"
    /\ pr_ops < MaxProcOps - 2
    /\ bitmap_allocate(pr_live, length) # None
    /\ pr_live' = pr_live \cup PagesFrom(bitmap_allocate(pr_live, length), length)
    /\ pr_ops' = pr_ops + 1
    /\ UNCHANGED <<pr_proc, pr_before, pr_bump>>
    /\ UNCHANGED nonProcVars

\* Process::from_fn_ptr(function, stack_size).
PrFromFnPtr(stack_size) ==
    /\ pr_proc.state = "none"
    /\ pr_ops < MaxProcOps
    /\ Constructed(from_fn_ptr(pr_live, pr_bump, stack_size))

\* Process::from_elf_file(elf, stack_size).
PrFromElfFile(elf, stack_size) ==
    /\ pr_proc.state = "none"
    /\ pr_ops < MaxProcOps
    /\ Constructed(from_elf_file(pr_live, pr_bump, elf, stack_size))

\* proc.map_page_sequence(virtual_address, length, Read | Write).
PrMapPageSequence(virtual_address, length) ==
    /\ pr_proc.state = "live"
    /\ pr_ops < MaxProcOps
    /\ LET st == map_page_sequence(Build(pr_live, mm_tables, mm_allocated, pr_proc, pr_bump),
                                   Addr(virtual_address, 0), length, PermReadWrite)
       IN /\ ~st.wild /\ ~st.panic
          /\ pr_live' = st.live
          /\ mm_tables' = st.tables
          /\ mm_allocated' = st.allocated
          /\ pr_proc' = [pr_proc EXCEPT !.by = "map_page_sequence",
                                        !.mapped = Append(@, st.last[1])]
    /\ pr_ops' = pr_ops + 1
    /\ UNCHANGED <<pr_before, pr_bump>>
    /\ UNCHANGED <<mm_freed, mm_ranges, mm_last, mm_ops>>
    /\ UNCHANGED nonProcMmuVars

\* The process is dropped.
PrDrop ==
    /\ pr_proc.state = "live"
    /\ pr_live' = pr_live \ DroppedPages(pr_proc)
    /\ pr_proc' = [pr_proc EXCEPT !.state = "dropped"]
    /\ pr_ops' = pr_ops + 1
    /\ UNCHANGED <<pr_before, pr_bump>>
    /\ UNCHANGED nonProcVars

ProcNext ==
    \/ \E length \in 1..2 : PrPageSequenceAlloc(length)
    \/ \E stack_size \in 1..MaxStack : PrFromFnPtr(stack_size)
    \/ \E elf \in ElfFiles, stack_size \in 1..MaxStack : PrFromElfFile(elf, stack_size)
    \/ \E call \in ProcSequences : PrMapPageSequence(call[1], call[2])
    \/ PrDrop

(***************************************************************************)
(* PLICDriver (qor-riscv/src/drivers/plic): every call is one atomic       *)
(* read-modify-write of an enable word, so calls of several harts          *)
(* interleave as whole steps.                                              *)
(***************************************************************************)
HartIds == 0..(PlicHarts - 1)
\* InterruptSource as u32: the sources the calls are made with.
InterruptSources == {1, 31, 32, 53}

\* raw::atomic_interrupt_enable_low_register / _high_register: the offset of
\* the word.
interrupt_enable_low_register(hart_id) ==
    INTERRUPT_ENABLE_REGISTER_BASE + hart_id * INTERRUPT_ENABLE_STRIDE
interrupt_enable_high_register(hart_id) == interrupt_enable_low_register(hart_id) + 4
EnableOffsets ==
    {interrupt_enable_low_register(h) : h \in HartIds}
        \cup {interrupt_enable_high_register(h) : h \in HartIds}

\* The word and the bit of a source: 1 << source_index in the low word,
\* 1 << (source_index - 32) in the high word.
enable_word(hart_id, source_index) ==
    IF source_index < ENABLE_WORD_BITS THEN interrupt_enable_low_register(hart_id)
    ELSE interrupt_enable_high_register(hart_id)
enable_bit(source_index) ==
    IF source_index < ENABLE_WORD_BITS THEN source_index ELSE source_index - ENABLE_WORD_BITS

\* fetch_or(1 << bit) and fetch_and(!(1 << bit)) on a word.
fetch_or_mut(word, bit) == {bit}
fetch_or(word, bit) == word \cup {bit}
fetch_and_not(word, bit) == word \ {bit}

PlicNew ==
    /\ pl_mmio = [o \in EnableOffsets |-> {}]
    /\ pl_last = [op |-> "none", hart |-> 0, source |-> 0]

\* enable_interrupt_source(hart_id, source).
PlEnableInterruptSource(hart_id, source) ==
    /\ pl_mmio' = [pl_mmio EXCEPT ![enable_word(hart_id, source)] = fetch_or(@, enable_bit(source))]
    /\ pl_last' = [op |-> "enable", hart |-> hart_id, source |-> source]
    /\ UNCHANGED nonPlicVars

\* disable_interrupt_source(hart_id, source).
PlDisableInterruptSource(hart_id, source) ==
    /\ pl_mmio' = [pl_mmio EXCEPT ![enable_word(hart_id, source)] = fetch_and_not(@, enable_bit(source))]
    /\ pl_last' = [op |-> "disable", hart |-> hart_id, source |-> source]
    /\ UNCHANGED nonPlicVars

PlicNext ==
    \/ \E hart_id \in HartIds, source \in InterruptSources : PlEnableInterruptSource(hart_id, source)
    \/ \E hart_id \in HartIds, source \in InterruptSources : PlDisableInterruptSource(hart_id, source)

(***************************************************************************)
(* HardwareTimer (qor-riscv/src/drivers/clint): machine time and machine   *)
(* time compare registers of each hart, and the step size.                 *)
(***************************************************************************)
ClintHartIds == 0..(ClintHarts - 1)
ClockModulus == 2 ^ ClockBits
\* Ticks the device counts between two calls.
Advances == {3, 10}
\* Microseconds(..) passed to set_time, Hertz(..) passed to set_frequency.
Deltas == {0, 1, 5, ClockModulus \div TICKS_PER_MICROSECOND, ClockModulus - 1}
Frequencies == {0, 2, 500000}

\* time: Microseconds(raw_time / 10).
time(mtime, id) == mtime[id] \div TICKS_PER_MICROSECOND

\* The value set_time computes: 10 * (current_time.0 + time.0).
compare_value(mtime, id, delta) == TICKS_PER_MICROSECOND * (time(mtime, id) + delta)
\* The addition or the multiplication leaves the width of the register.
overflows(mtime, id, delta) ==
    \/ time(mtime, id) + delta >= ClockModulus
    \/ ((time(mtime, id) + delta) % ClockModulus) * TICKS_PER_MICROSECOND >= ClockModulus
wrapping(value) == value % ClockModulus

NoTimerCall == [op |-> "none", hart |-> 0, delta |-> 0, panicked |-> FALSE]

ClintNew ==
    /\ cl_mtime = [h \in ClintHartIds |-> 0]
    /\ cl_mtimecmp = [h \in ClintHartIds |-> 0]
    /\ cl_step = MICROSECONDS_PER_SECOND
    /\ cl_last = NoTimerCall
    /\ cl_ops = 0

\* The outcomes of set_time(id, time): with overflow checks the arithmetic
\* panics when it overflows, without them it wraps.
set_time(op, id, delta) ==
    /\ \/ /\ overflows(cl_mtime, id, delta)
          /\ cl_last' = [op |-> op, hart |-> id, delta |-> delta, panicked |-> TRUE]
          /\ cl_mtimecmp' = cl_mtimecmp
       \/ /\ cl_last' = [op |-> op, hart |-> id, delta |-> delta, panicked |-> FALSE]
          /\ cl_mtimecmp' = [cl_mtimecmp EXCEPT ![id] = wrapping(compare_value(cl_mtime, id, delta))]
    /\ cl_ops' = cl_ops + 1
    /\ UNCHANGED <<cl_mtime, cl_step>>
    /\ UNCHANGED nonClintVars

\* The device counts the machine time of a hart.
ClAdvance(id, ticks) ==
    /\ cl_ops < MaxClintOps
    /\ cl_mtime' = [cl_mtime EXCEPT ![id] = wrapping(@ + ticks)]
    /\ cl_ops' = cl_ops + 1
    /\ UNCHANGED <<cl_mtimecmp, cl_step, cl_last>>
    /\ UNCHANGED nonClintVars

ClSetTime(id, delta) == cl_ops < MaxClintOps /\ set_time("set_time", id, delta)

\* handle_interrupt: set_time with the stored step size.
ClHandleInterrupt(id) == cl_ops < MaxClintOps /\ set_time("handle_interrupt", id, cl_step)

\* start_timer: set_time(hart_id, Microseconds(0)).
ClStartTimer(id) == cl_ops < MaxClintOps /\ set_time("start_timer", id, 0)

\* set_frequency: step_size = 1_000_000 / frequency.0; a zero frequency
\* panics in the division.
ClSetFrequency(frequency) ==
    /\ cl_ops < MaxClintOps
    /\ IF frequency = 0
       THEN /\ cl_last' = [op |-> "set_frequency", hart |-> 0, delta |-> 0, panicked |-> TRUE]
            /\ cl_step' = cl_step
       ELSE /\ cl_last' = [op |-> "set_frequency", hart |-> 0, delta |-> 0, panicked |-> FALSE]
            /\ cl_step' = MICROSECONDS_PER_SECOND \div frequency
    /\ cl_ops' = cl_ops + 1
    /\ UNCHANGED <<cl_mtime, cl_mtimecmp>>
    /\ UNCHANGED nonClintVars

\* reset: the machine time of the hart is set to 0.
ClReset(id) ==
    /\ cl_ops < MaxClintOps
    /\ cl_mtime' = [cl_mtime EXCEPT ![id] = 0]
    /\ cl_last' = [op |-> "reset", hart |-> id, delta |-> 0, panicked |-> FALSE]
    /\ cl_ops' = cl_ops + 1
    /\ UNCHANGED <<cl_mtimecmp, cl_step>>
    /\ UNCHANGED nonClintVars

ClintNext ==
    \/ \E id \in ClintHartIds, ticks \in Advances : ClAdvance(id, ticks)
    \/ \E id \in ClintHartIds, delta \in Deltas : ClSetTime(id, delta)
    \/ \E id \in ClintHartIds : ClHandleInterrupt(id)
    \/ \E id \in ClintHartIds : ClStartTimer(id)
    \/ \E frequency \in Frequencies : ClSetFrequency(frequency)
    \/ \E id \in ClintHartIds : ClReset(id)

(***************************************************************************)
(* VirtualFileSystem (qor-core/src/interfaces/fs/vfs.rs): the device list, *)
(* the mount table and the routing of a request to a device.               *)
(***************************************************************************)
INodeReference(inode, device) == [inode |-> inode, device |-> device]
\* The inode references mounts and requests are made with.
MountPoints == {INodeReference(0, 1), INodeReference(5, 2), INodeReference(7, 0)}
RequestINodes ==
    MountPoints \cup {INodeReference(i, d) : i \in {0, 2}, d \in {0, 1, 2, 4}}
FileSystemKinds == {"empty", "ext2"}
Requests == {"inode_data", "directory_entries", "open", "read_to_data"}
\* Inode numbers an ext2 image holds.
Ext2INodes == {EXT2_ROOT_INODE, 5}

\* EmptyFileSystem::new / Ext2FileSystem::new and set_mount_device_id.
new_filesystem(kind) ==
    [kind |-> kind, id |-> IF kind = "empty" THEN EMPTY_UNMOUNTED_ID ELSE EXT2_UNMOUNTED_ID]
set_mount_device_id(fs, device_id) == [fs EXCEPT !.id = device_id]

\* root_inode of a device.
fs_root_inode(fs) ==
    IF fs.kind = "empty" THEN INodeReference(0, fs.id)
    ELSE INodeReference(EXT2_ROOT_INODE, fs.id)

\* The answer of the device at position `position` of the list to a
\* request on an inode: the empty filesystem verifies the device of the
\* reference and knows inode 0, ext2 reads the inode from its image.
fs_request(fs, position, inode) ==
    [served |-> position, asked |-> inode,
     status |-> IF fs.kind = "empty"
                THEN IF inode.device # fs.id THEN "BadInodeWrongDevice"
                     ELSE IF inode.inode = 0 THEN "Ok" ELSE "BadInode"
                ELSE IF inode.inode \in Ext2INodes THEN "Ok" ELSE "BadInode"]
BadInodeWrongDevice(inode) ==
    [served |-> 0, asked |-> inode, status |-> "BadInodeWrongDevice"]

\* devices.get(index): the list is indexed from 0.
HasDevice(devices, index) == index + 1 \in DOMAIN devices
get(devices, index) == devices[index + 1]

\* The index of the device of an inode reference: inode.device - 1.
device_index_mut(device) == device
device_index(device) == device - 1

\* mount_inner: the device gets the id devices.len() + 1, is pushed, and the
\* mount table maps the inode to the index of the pushed device.
mount_inner(devices, mounted, inode, device) ==
    LET pushed == Append(devices, set_mount_device_id(device, Len(devices) + 1))
    IN  [devices |-> pushed,
         mounted |-> [i \in DOMAIN mounted \cup {inode}
                         |-> IF i = inode THEN Len(pushed) - 1 ELSE mounted[i]]]

\* The routing shared by inode_data, directory_entries, open and
\* read_to_data.
route(devices, mounted, inode) ==
    IF inode \in DOMAIN mounted
    THEN IF HasDevice(devices, mounted[inode])
         THEN fs_request(get(devices, mounted[inode]), mounted[inode] + 1,
                         fs_root_inode(get(devices, mounted[inode])))
         ELSE BadInodeWrongDevice(inode)
    ELSE IF inode.device >= 1
         THEN IF HasDevice(devices, device_index(inode.device))
              THEN fs_request(get(devices, device_index(inode.device)),
                              device_index(inode.device) + 1, inode)
              ELSE BadInodeWrongDevice(inode)
         ELSE BadInodeWrongDevice(inode)

NoRequest == [op |-> "new", inode |-> INodeReference(0, 0), result |-> BadInodeWrongDevice(INodeReference(0, 0))]

\* VirtualFileSystem::new: the list holds one EmptyFileSystem with id 1.
VfsNew ==
    /\ vf_devices = <<set_mount_device_id(new_filesystem("empty"), 1)>>
    /\ vf_mounted = << >>
    /\ vf_log = << >>
    /\ vf_last = NoRequest

\* mount_filesystem(inode, Arc::new(filesystem)).
VfMountFilesystem(inode, kind) ==
    /\ Len(vf_log) < MaxMounts
    /\ LET after == mount_inner(vf_devices, vf_mounted, inode, new_filesystem(kind))
       IN  /\ vf_devices' = after.devices
           /\ vf_mounted' = after.mounted
    /\ vf_log' = Append(vf_log, [inode |-> inode, kind |-> kind])
    /\ vf_last' = [op |-> "mount_filesystem", inode |-> inode, result |-> BadInodeWrongDevice(inode)]
    /\ UNCHANGED nonVfsVars

\* inode_data, directory_entries, open, read_to_data.
VfRequest(request, inode) ==
    /\ vf_last' = [op |-> request, inode |-> inode, result |-> route(vf_devices, vf_mounted, inode)]
    /\ UNCHANGED <<vf_devices, vf_mounted, vf_log>>
    /\ UNCHANGED nonVfsVars

VfsNext ==
    \/ \E inode \in MountPoints, kind \in FileSystemKinds : VfMountFilesystem(inode, kind)
    \/ \E request \in Requests, inode \in RequestINodes : VfRequest(request, inode)

(***************************************************************************)
(* AllocationTable used by parallel callers: one step per entry.lock()     *)
(* attempt, together with what the caller does under the guards it holds   *)
(* until its next lock attempt (only the holder of a guard reads or writes *)
(* the entry). add_region takes &mut self and runs while no call is in     *)
(* progress.                                                               *)
(***************************************************************************)
BpCallers == 1..ByteCallers
\* The regions the table is given before the callers start.
ParallelBases == {RegionUpper * LowSpace + 4096, RegionUpper * LowSpace + 8192}
ParallelLength == PAGE_SIZE

NoCall == [op |-> "idle", pc |-> "idle", size |-> 0, align |-> 0, ptr |-> None,
           current |-> 0, scan |-> 0, panic |-> "none"]

ParNew ==
    /\ bp_call = [t \in BpCallers |-> NoCall]
    /\ bp_guards = [t \in BpCallers |-> {}]
    /\ bp_calls = 0

\* The LOCKED bit of the entry is set: some caller holds its guard.
Locked(e) == \E u \in BpCallers : e \in bp_guards[u]

\* The call of caller t returns: its guards are dropped.
BpReturn(t) ==
    /\ bp_call' = [bp_call EXCEPT ![t] = NoCall]
    /\ bp_guards' = [bp_guards EXCEPT ![t] = {}]
\* The call of caller t panics; the guards it holds stay locked.
BpPanic(t, what, held) ==
    /\ bp_call' = [bp_call EXCEPT ![t] = [@ EXCEPT !.pc = "panicked", !.panic = what]]
    /\ bp_guards' = [bp_guards EXCEPT ![t] = held]
\* The end of a loop iteration: the guards are dropped and the loop goes on
\* at entry `next`.
BpGoOn(t, next) ==
    /\ bp_call' = [bp_call EXCEPT ![t] = [@ EXCEPT !.pc = "lock", !.current = next, !.scan = 0]]
    /\ bp_guards' = [bp_guards EXCEPT ![t] = {}]
\* alloc found nothing in the entry: on to the next entry, or None.
BpAllocNext(t, guard) ==
    IF guard.next > 0 THEN BpGoOn(t, guard.next) ELSE BpReturn(t)

BpBegin(t, op, size, align, ptr) ==
    /\ bp_call[t].pc = "idle"
    /\ bt_regions # {}
    /\ bp_calls < MaxParallelCalls
    /\ bp_calls' = bp_calls + 1
    /\ bp_call' = [bp_call EXCEPT ![t] =
           [NoCall EXCEPT !.op = op, !.pc = "lock", !.size = size, !.align = align, !.ptr = ptr]]
    /\ UNCHANGED <<bp_guards, bt_entries>>
    /\ UNCHANGED <<pointer_upper_32, bt_regions, bt_last, bt_script, bt_ops>>
    /\ UNCHANGED nonParByteVars

\* A caller calls alloc(size, align), free(ptr) of a live allocation (no
\* other caller frees the same pointer), or coalesce_free_regions().
BpAlloc(t, size, align) == BpBegin(t, "alloc", size, align, None) /\ UNCHANGED bt_live
BpFree(t, a) ==
    /\ a \in bt_live
    /\ BpBegin(t, "free", 0, 0, a.ptr)
    /\ bt_live' = bt_live \ {a}
BpCoalesce(t) == BpBegin(t, "coalesce", 0, 0, None) /\ UNCHANGED bt_live

\* current.lock() at the head of the loop of alloc, free or
\* coalesce_free_regions, and the body of the loop up to the next lock
\* attempt.
BpLock(t) ==
    /\ bp_call[t].pc = "lock"
    /\ LET call == bp_call[t]
           e == call.current
           guard == bt_entries[e]
           align_slack == align_slack_of(guard.low, call.align)
           ptr_start == pointer(guard, pointer_upper_32)
       IN IF Locked(e)
          THEN /\ IF call.op = "free" THEN BpPanic(t, "todo", {}) ELSE BpReturn(t)
               /\ UNCHANGED <<bt_entries, bt_live>>
          ELSE IF ~guard.valid
          THEN /\ BpPanic(t, "assert_valid", {e})
               /\ UNCHANGED <<bt_entries, bt_live>>
          ELSE IF call.op = "alloc"
          THEN IF ~guard.allocated /\ guard.length = align_slack + call.size
               THEN /\ bt_entries' = [bt_entries EXCEPT ![e].allocated = TRUE]
                    /\ bt_live' = bt_live \cup {[ptr |-> ptr_start + align_slack, size |-> call.size]}
                    /\ BpReturn(t)
               ELSE IF /\ ~guard.allocated /\ guard.length > align_slack + call.size
                       /\ pointer_upper_32 = (ptr_start + align_slack + call.size) \div LowSpace
               THEN /\ bp_call' = [bp_call EXCEPT ![t] = [@ EXCEPT !.pc = "scan", !.scan = 0]]
                    /\ bp_guards' = [bp_guards EXCEPT ![t] = {e}]
                    /\ UNCHANGED <<bt_entries, bt_live>>
               ELSE /\ BpAllocNext(t, guard)
                    /\ UNCHANGED <<bt_entries, bt_live>>
          ELSE IF call.op = "free"
          THEN IF guard.allocated /\ call.ptr >= ptr_start /\ call.ptr < ptr_start + guard.length
               THEN /\ bt_entries' = [bt_entries EXCEPT ![e].allocated = FALSE]
                    /\ BpReturn(t)
                    /\ UNCHANGED bt_live
               ELSE /\ IF guard.next > 0 THEN BpGoOn(t, guard.next)
                       ELSE BpPanic(t, "panic", {})
                    /\ UNCHANGED <<bt_entries, bt_live>>
          ELSE /\ IF guard.next > 0
                  THEN /\ bp_call' = [bp_call EXCEPT ![t] = [@ EXCEPT !.pc = "lock_next"]]
                       /\ bp_guards' = [bp_guards EXCEPT ![t] = {e}]
                  ELSE BpReturn(t)
               /\ UNCHANGED <<bt_entries, bt_live>>
    /\ UNCHANGED <<pointer_upper_32, bt_regions, bt_last, bt_script, bt_ops, bp_calls>>
    /\ UNCHANGED nonParByteVars

\* find_first_invalid inside alloc: self.entries[index].lock() for the next
\* index. A locked entry is passed over, the guard of a valid entry is
\* dropped again, an invalid entry becomes the free part of the split.
BpScan(t) ==
    /\ bp_call[t].pc = "scan"
    /\ LET call == bp_call[t]
           e == call.current
           guard == bt_entries[e]
           i == call.scan
           align_slack == align_slack_of(guard.low, call.align)
       IN IF i = ALLOCATION_TABLE_LENGTH
          THEN /\ BpAllocNext(t, guard)
               /\ UNCHANGED <<bt_entries, bt_live>>
          ELSE IF Locked(i) \/ bt_entries[i].valid
          THEN /\ bp_call' = [bp_call EXCEPT ![t] = [@ EXCEPT !.scan = i + 1]]
               /\ UNCHANGED <<bp_guards, bt_entries, bt_live>>
          ELSE /\ bt_entries' = [bt_entries EXCEPT
                      ![i] = set_next(update(bt_entries[i], TRUE, FALSE,
                                             guard.length - align_slack - call.size,
                                             wrapping_add(guard.low, align_slack + call.size)),
                                      guard.next),
                      ![e] = set_next(update(guard, TRUE, TRUE, align_slack + call.size, guard.low), i)]
               /\ bt_live' = bt_live \cup
                      {[ptr |-> pointer(guard, pointer_upper_32) + align_slack, size |-> call.size]}
               /\ BpReturn(t)
    /\ UNCHANGED <<pointer_upper_32, bt_regions, bt_last, bt_script, bt_ops, bp_calls>>
    /\ UNCHANGED nonParByteVars

\* coalesce_free_regions: next.lock() under the guard of the current entry,
\* todo!() when the next entry is locked; the merge, and on with the loop.
BpLockNext(t) ==
    /\ bp_call[t].pc = "lock_next"
    /\ LET e == bp_call[t].current
           guard == bt_entries[e]
           next_index == guard.next
           next_guard == bt_entries[next_index]
       IN IF Locked(next_index)
          THEN /\ BpPanic(t, "todo", {e})
               /\ UNCHANGED bt_entries
          ELSE IF CanMerge(guard, next_guard)
          THEN /\ bt_entries' = [bt_entries EXCEPT
                      ![e] = set_next(set_allocation_length(guard, guard.length + next_guard.length),
                                      next_guard.next),
                      ![next_index].valid = FALSE]
               /\ BpGoOn(t, e)
          ELSE /\ BpGoOn(t, next_index)
               /\ UNCHANGED bt_entries
    /\ UNCHANGED <<pointer_upper_32, bt_regions, bt_live, bt_last, bt_script, bt_ops, bp_calls>>
    /\ UNCHANGED nonParByteVars

\* add_region before the callers start; they start once the table has a
\* region.
BpAddRegion(ptr) ==
    /\ bp_calls = 0
    /\ ByteAddRegion(ptr, ParallelLength)

ParallelNext ==
    \/ \E ptr \in ParallelBases : BpAddRegion(ptr)
    \/ \E t \in BpCallers, req \in AllocRequests : BpAlloc(t, req[1], req[2])
    \/ \E t \in BpCallers, a \in bt_live : BpFree(t, a)
    \/ \E t \in BpCallers : BpCoalesce(t)
    \/ \E t \in BpCallers : BpLock(t)
    \/ \E t \in BpCallers : BpScan(t)
    \/ \E t \in BpCallers : BpLockNext(t)

(***************************************************************************)
(* What the pages of the bitmap allocator hold (qor-os/src/memory). The    *)
(* allocator hands out and takes back pages without writing to them, so a  *)
(* page keeps the bytes of its last owner. ld_fill[page] is "zero" while   *)
(* nothing was stored in the page since boot and "data" once an owner has  *)
(* filled it. The kernel's owners are the buffers of GlobalAlloc whose     *)
(* layout goes to the page allocator (the image of the program read from   *)
(* the disk is one).                                                       *)
(***************************************************************************)
Buffer(base, pages) == [base |-> base, pages |-> pages]
BufferOf(base) == Buffer(base, BufferPages)

LoadNew ==
    /\ ld_fill = [p \in ProcPool |-> "zero"]
    /\ ld_held = {}

\* GlobalAlloc::alloc with size + align >= 4096: pages of the bitmap
\* allocator, returned as they are.
LdAlloc ==
    /\ pr_proc.state = "none"
    /\ Cardinality(ld_held) < MaxBuffers
    /\ bitmap_allocate(pr_live, BufferPages) # None
    /\ pr_live' = pr_live \cup PagesFrom(bitmap_allocate(pr_live, BufferPages), BufferPages)
    /\ ld_held' = ld_held \cup {BufferOf(bitmap_allocate(pr_live, BufferPages))}
    /\ UNCHANGED <<ld_fill, pr_proc, pr_before, pr_bump, pr_ops>>
    /\ UNCHANGED nonProcLoadVars

\* The owner of a buffer fills it.
LdStore(buffer) ==
    /\ buffer \in ld_held
    /\ ld_fill' = [p \in ProcPool |->
                      IF p \in PagesFrom(buffer.base, buffer.pages) THEN "data" ELSE ld_fill[p]]
    /\ UNCHANGED ld_held
    /\ UNCHANGED nonLoadVars

\* GlobalAlloc::dealloc of a buffer: free(ptr, pages) clears the bits of the
\* pages and nothing else.
LdDealloc(buffer) ==
    /\ buffer \in ld_held
    /\ pr_live' = pr_live \ PagesFrom(buffer.base, buffer.pages)
    /\ ld_held' = ld_held \ {buffer}
    /\ UNCHANGED <<ld_fill, pr_proc, pr_before, pr_bump, pr_ops>>
    /\ UNCHANGED nonProcLoadVars

\* Process::from_elf_file copies the file bytes of a segment into
\* sequence[page_offset .. page_offset + file_length] and writes nothing
\* else to the sequence: ld_fill stays as it is.
LoadNext ==
    \/ LdAlloc
    \/ \E buffer \in ld_held : LdStore(buffer)
    \/ \E buffer \in ld_held : LdDealloc(buffer)
    \/ \E elf \in ElfFiles, stack_size \in 1..MaxStack : PrFromElfFile(elf, stack_size)

(***************************************************************************)
(* Trap handler, process table and context switch (qor-os/src/trap,        *)
(* qor-os/src/process) on one hart. The kernel thread creates processes    *)
(* with start_process; a timer interrupt may arrive in kernel or in user   *)
(* mode, an ecall in user mode. The handler runs with interrupts off. Each *)
(* acquisition of the mutex of PROGRAM_TABLE is a step of its own. The     *)
(* mutex, the trap vector and switch_to_user are not part of the sources:  *)
(* the mutex blocks until it is free, the vector resumes at the pc that    *)
(* handle_trap returns, and switch_to_user enters user mode with the satp  *)
(* and at the pc it is given.                                              *)
(***************************************************************************)
PidModulus == 2 ^ PidBits
Pids == 0..(PidModulus - 1)

\* elf.header.entry of the programs, and the size of an instruction.
EntryPoints == {65536}
INSTRUCTION_BYTES == 4

\* Syscall numbers a process places in x17.
EcallNumbers == {SYS_WRITE, 60}

NoContext == [mode |-> "none", pid |-> 0, pc |-> 0]
KernelContext == [mode |-> "kernel", pid |-> 0, pc |-> 0]
UserContext(pid, pc) == [mode |-> "user", pid |-> pid, pc |-> pc]
NoTrap == [cause |-> "none", pc |-> "none", from |-> NoContext, number |-> 0,
           data |-> <<>>]
KernelIdle == [pc |-> "idle", proc |-> <<>>]
NoNote == [op |-> "none", pid |-> 0, pc |-> 0, fresh |-> TRUE, lock |-> "free"]

TrapNew ==
    /\ tp_counter = 1
    /\ tp_table = <<>>
    /\ tp_lock = "free"
    /\ tp_hart = KernelContext
    /\ tp_kernel = KernelIdle
    /\ tp_trap = NoTrap
    /\ tp_at = [p \in Pids |-> None]
    /\ tp_note = NoNote
    /\ tp_starts = 0

\* PID_COUNTER.fetch_add(1, Relaxed) on an AtomicU16: the value returned and
\* the value left.
new_pid(counter) == [pid |-> counter, counter |-> (counter + 1) % PidModulus]

\* Mutex::spin_lock, and the guard going out of scope.
spin_lock(holder, by) == IF holder = "free" THEN by ELSE holder
unlock(holder) == "free"

\* drop(lock) of the MachineTimer arm of handle_trap.
drop_mut(holder) == holder
drop(holder) == unlock(holder)

\* BTreeMap::insert and BTreeMap::first_entry (the least key).
insert(table, pid, proc) ==
    [p \in DOMAIN table \cup {pid} |-> IF p = pid THEN proc ELSE table[p]]
first_entry(table) ==
    IF DOMAIN table = {} THEN None
    ELSE CHOOSE p \in DOMAIN table : \A q \in DOMAIN table : p <= q

\* construct_satp(asid, table): the ASID field, and get_pid() reading it back.
construct_satp(pid) == [asid |-> pid % PidModulus, root |-> pid]
get_pid(satp_asid) == satp_asid % PidModulus

\* Process::get_switching_data: (satp, trap frame, program_counter).
get_switching_data(proc) ==
    <<construct_satp(proc.pid), proc.pid, proc.program_counter>>

\* Process::from_elf_file up to the call of start_process: new_pid() in
\* from_components, program_counter = elf.header.entry.
TpCreate(entry) ==
    /\ tp_hart.mode = "kernel"
    /\ tp_kernel.pc = "idle"
    /\ tp_starts < MaxStarts
    /\ tp_counter' = new_pid(tp_counter).counter
    /\ tp_kernel' = [pc |-> "spin_lock",
                     proc |-> [pid |-> new_pid(tp_counter).pid, program_counter |-> entry]]
    /\ tp_starts' = tp_starts + 1
    /\ UNCHANGED <<tp_table, tp_lock, tp_hart, tp_trap, tp_at, tp_note>>
    /\ UNCHANGED nonTrapVars

\* start_process: PROGRAM_TABLE.spin_lock().
TpStartLock ==
    /\ tp_hart.mode = "kernel"
    /\ tp_kernel.pc = "spin_lock"
    /\ tp_lock = "free"
    /\ tp_lock' = spin_lock(tp_lock, "kernel")
    /\ tp_kernel' = [tp_kernel EXCEPT !.pc = "insert"]
    /\ UNCHANGED <<tp_counter, tp_table, tp_hart, tp_trap, tp_at, tp_note, tp_starts>>
    /\ UNCHANGED nonTrapVars

\* start_process: .insert(proc.pid, proc), and the guard dropped.
TpStartInsert ==
    /\ tp_hart.mode = "kernel"
    /\ tp_kernel.pc = "insert"
    /\ tp_table' = insert(tp_table, tp_kernel.proc.pid, tp_kernel.proc)
    /\ tp_lock' = unlock(tp_lock)
    /\ tp_kernel' = KernelIdle
    /\ tp_note' = [NoNote EXCEPT !.op = "insert", !.pid = tp_kernel.proc.pid,
                                 !.fresh = ~(tp_kernel.proc.pid \in DOMAIN tp_table)]
    /\ UNCHANGED <<tp_counter, tp_hart, tp_trap, tp_at, tp_starts>>
    /\ UNCHANGED nonTrapVars

\* The process in user mode runs one instruction.
TpUserStep ==
    /\ tp_hart.mode = "user"
    /\ tp_hart.pc < tp_table[tp_hart.pid].program_counter + MaxUserSteps * INSTRUCTION_BYTES
    /\ tp_hart' = [tp_hart EXCEPT !.pc = @ + INSTRUCTION_BYTES]
    /\ UNCHANGED <<tp_counter, tp_table, tp_lock, tp_kernel, tp_trap, tp_at, tp_note, tp_starts>>
    /\ UNCHANGED nonTrapVars

\* A machine timer interrupt arrives: m_trap is entered with epc = the pc
\* of the interrupted context.
TpTimerInterrupt ==
    /\ tp_hart.mode \in {"kernel", "user"}
    /\ tp_trap' = [NoTrap EXCEPT !.cause = "MachineTimer", !.pc = "spin_lock", !.from = tp_hart]
    /\ tp_hart' = [tp_hart EXCEPT !.mode = "trap"]
    /\ tp_at' = IF tp_hart.mode = "user" THEN [tp_at EXCEPT ![tp_hart.pid] = tp_hart.pc]
                ELSE tp_at
    /\ UNCHANGED <<tp_counter, tp_table, tp_lock, tp_kernel, tp_note, tp_starts>>
    /\ UNCHANGED nonTrapVars

\* The process executes ecall with x17 = number.
TpEcall(number) ==
    /\ tp_hart.mode = "user"
    /\ tp_hart.pc < tp_table[tp_hart.pid].program_counter + MaxUserSteps * INSTRUCTION_BYTES
    /\ tp_trap' = [NoTrap EXCEPT !.cause = "EnvironmentCallFromUMode", !.pc = "spin_lock",
                                 !.from = tp_hart, !.number = number]
    /\ tp_hart' = [tp_hart EXCEPT !.mode = "trap"]
    /\ UNCHANGED <<tp_counter, tp_table, tp_lock, tp_kernel, tp_at, tp_note, tp_starts>>
    /\ UNCHANGED nonTrapVars

\* handle_trap: processes().spin_lock(), of either arm.
TpTrapLock ==
    /\ tp_hart.mode = "trap"
    /\ tp_trap.pc = "spin_lock"
    /\ tp_lock = "free"
    /\ tp_lock' = spin_lock(tp_lock, "trap")
    /\ tp_trap' = [tp_trap EXCEPT !.pc = "locked"]
    /\ UNCHANGED <<tp_counter, tp_table, tp_hart, tp_kernel, tp_at, tp_note, tp_starts>>
    /\ UNCHANGED nonTrapVars

\* handle_trap, MachineTimer: lock.first_entry(); with an entry the switching
\* data is copied and the guard dropped, without one the guard is dropped at
\* the end of the arm and the handler returns info.trap_pc.
TpTimerFirstEntry ==
    /\ tp_hart.mode = "trap"
    /\ tp_trap.pc = "locked"
    /\ tp_trap.cause = "MachineTimer"
    /\ IF first_entry(tp_table) = None
       THEN /\ tp_lock' = unlock(tp_lock)
            /\ tp_hart' = tp_trap.from
            /\ tp_trap' = NoTrap
       ELSE /\ tp_lock' = drop(tp_lock)
            /\ tp_trap' = [tp_trap EXCEPT !.pc = "switch",
                              !.data = get_switching_data(tp_table[first_entry(tp_table)])]
            /\ UNCHANGED tp_hart
    /\ UNCHANGED <<tp_counter, tp_table, tp_kernel, tp_at, tp_note, tp_starts>>
    /\ UNCHANGED nonTrapVars

\* Process::switch(switching_data): switch_to_user(frame, pc, satp).
TpSwitch ==
    /\ tp_hart.mode = "trap"
    /\ tp_trap.pc = "switch"
    /\ tp_hart' = UserContext(get_pid(tp_trap.data[1].asid), tp_trap.data[3])
    /\ tp_trap' = NoTrap
    /\ tp_note' = [NoNote EXCEPT !.op = "switch", !.pid = get_pid(tp_trap.data[1].asid),
                                 !.pc = tp_trap.data[3], !.lock = tp_lock]
    /\ UNCHANGED <<tp_counter, tp_table, tp_lock, tp_kernel, tp_at, tp_starts>>
    /\ UNCHANGED nonTrapVars

\* handle_trap, EnvironmentCallFromUMode: lock.get_mut(&get_pid()), then
\* raw_handle_syscall, which panics unless x17 is Write; the guard is dropped
\* at the end of the arm and the handler returns info.trap_pc + 4.
TpEcallHandle ==
    /\ tp_hart.mode = "trap"
    /\ tp_trap.pc = "locked"
    /\ tp_trap.cause = "EnvironmentCallFromUMode"
    /\ IF get_pid(tp_trap.from.pid) \in DOMAIN tp_table /\ tp_trap.number # SYS_WRITE
       THEN /\ tp_hart' = [tp_hart EXCEPT !.mode = "panic"]
            /\ UNCHANGED <<tp_lock, tp_trap>>
       ELSE /\ tp_lock' = unlock(tp_lock)
            /\ tp_hart' = [tp_trap.from EXCEPT !.pc = @ + INSTRUCTION_BYTES]
            /\ tp_trap' = NoTrap
    /\ UNCHANGED <<tp_counter, tp_table, tp_kernel, tp_at, tp_note, tp_starts>>
    /\ UNCHANGED nonTrapVars

TrapNext ==
    \/ \E entry \in EntryPoints : TpCreate(entry)
    \/ TpStartLock
    \/ TpStartInsert
    \/ TpUserStep
    \/ TpTimerInterrupt
    \/ \E number \in EcallNumbers : TpEcall(number)
    \/ TpTrapLock
    \/ TpTimerFirstEntry
    \/ TpSwitch
    \/ TpEcallHandle

(***************************************************************************)
(* BlockOperationFuture (qor-os/src/drivers/virtio/block). The device      *)
(* answers a request by writing one status byte: 0 (OK), 1 (IOERR) or 2    *)
(* (UNSUPP) of VirtIO. A poll is one atomic load of the byte; the polls    *)
(* and the write of the device interleave freely.                          *)
(***************************************************************************)
DeviceStatuses == {0, 1, 2}
NoFutureYet == [made |-> FALSE, original_value |-> 0, write |-> FALSE, block_index |-> 0]
\* The blocks asked for.
BlockIndexes == {0, 2}

BlockNew ==
    /\ bk_status = 0
    /\ bk_future = NoFutureYet
    /\ bk_polls = <<>>
    /\ bk_requests = 0

\* <BlockOperationFuture as Future>::poll on a status byte.
BlockOperationFuture_poll_mut(original_value, value) ==
    IF value = 0 THEN "Pending"
    ELSE IF value = 1 THEN "Ready(Err(IOError))"
    ELSE IF value = 2 THEN "Ready(Err(UnsupportedOperation))"
    ELSE "unimplemented"
BlockOperationFuture_poll(original_value, value) ==
    IF value = original_value THEN "Pending"
    ELSE IF value = 0 THEN "Ready(Ok(()))"
    ELSE IF value = 1 THEN "Ready(Err(IOError))"
    ELSE IF value = 2 THEN "Ready(Err(UnsupportedOperation))"
    ELSE "unimplemented"

\* non_blocking_block_operation: arc_alloc_request(.., 111), execute_request,
\* BlockOperationFuture::new(111, request).
BkNonBlockingBlockOperation(block_index, is_write) ==
    /\ ~bk_future.made
    /\ bk_requests < MaxRequests
    /\ bk_status' = ORIGINAL_STATUS
    /\ bk_future' = [made |-> TRUE, original_value |-> ORIGINAL_STATUS, write |-> is_write,
                     block_index |-> block_index]
    /\ bk_polls' = <<>>
    /\ bk_requests' = bk_requests + 1
    /\ UNCHANGED nonBlockVars

\* The device completes the request: it writes the status byte, once.
BkDeviceWrites(value) ==
    /\ bk_future.made
    /\ bk_status = ORIGINAL_STATUS
    /\ bk_status' = value
    /\ UNCHANGED <<bk_future, bk_polls, bk_requests>>
    /\ UNCHANGED nonBlockVars

\* The executor polls the future; a future that was Ready is dropped.
BkPoll ==
    /\ bk_future.made
    /\ Len(bk_polls) < MaxBlockPolls
    /\ LET result == BlockOperationFuture_poll(bk_future.original_value, bk_status)
       IN /\ bk_polls' = Append(bk_polls, [status |-> bk_status, result |-> result])
          /\ bk_future' = IF result = "Pending" THEN bk_future ELSE NoFutureYet
    /\ UNCHANGED <<bk_status, bk_requests>>
    /\ UNCHANGED nonBlockVars

BlockNext ==
    \/ \E block_index \in BlockIndexes, is_write \in BOOLEAN :
          BkNonBlockingBlockOperation(block_index, is_write)
    \/ \E value \in DeviceStatuses : BkDeviceWrites(value)
    \/ BkPoll

(***************************************************************************)
(* Path caches of the VirtualFileSystem (qor-core/src/interfaces/fs/       *)
(* vfs.rs). A path is the sequence of its components, <<>> being "/". The  *)
(* caches are behind spin::RwLock: write() spins while a read guard or a   *)
(* write guard is alive. The calls are made one at a time; a step of       *)
(* invalidate_cache is one use of a lock.                                  *)
(***************************************************************************)
\* The file system under the caches: / (inode 2) holds bin (12), which
\* holds hello (13); every directory has its "." and "..".
RootDirectory == INodeReference(EXT2_ROOT_INODE, 1)
BinDirectory == INodeReference(12, 1)
HelloFile == INodeReference(13, 1)
CacheINodes == {RootDirectory, BinDirectory, HelloFile}
DirEntry(name, inode) == [name |-> name, inode |-> inode]
is_directory(inode) == inode \in {RootDirectory, BinDirectory}
directory_entries(inode) ==
    IF inode = RootDirectory
    THEN <<DirEntry(".", RootDirectory), DirEntry("..", RootDirectory),
           DirEntry("bin", BinDirectory)>>
    ELSE IF inode = BinDirectory
    THEN <<DirEntry(".", BinDirectory), DirEntry("..", RootDirectory),
           DirEntry("hello", HelloFile)>>
    ELSE <<>>

\* The paths looked up.
LookupPaths == {<<>>, <<"bin">>, <<"bin", ".">>, <<"bin", "hello">>, <<"bin", "..">>, <<"etc">>}

Caches(path_cache, rev_path_cache) ==
    [path_cache |-> path_cache, rev_path_cache |-> rev_path_cache]

\* BTreeMap::insert and BTreeMap::remove.
map_insert(m, k, v) == [x \in DOMAIN m \cup {k} |-> IF x = k THEN v ELSE m[x]]
map_remove(m, k) == [x \in DOMAIN m \ {k} |-> m[x]]

\* VirtualFileSystem::insert_pairing.
insert_pairing(caches, path, inode) ==
    Caches(map_insert(caches.path_cache, path, inode),
           map_insert(caches.rev_path_cache, inode, path))

\* The entries of a directory with the name.
FindEntry(entries, name) ==
    SelectSeq(entries, LAMBDA entry : entry.name = name)

\* The loop of lookup_inner over the components `rest`, at inode with
\* build_path built so far, and its last insert_pairing.
RECURSIVE LookupFrom(_, _, _, _)
LookupFrom(caches, inode, build_path, rest) ==
    LET paired == insert_pairing(caches, build_path, inode)
        found == FindEntry(directory_entries(inode), Head(rest))
    IN IF rest = <<>> THEN [caches |-> paired, result |-> "Ok", inode |-> inode]
       ELSE IF found = <<>>
       THEN [caches |-> paired, result |-> "PathNotFound", inode |-> inode]
       ELSE LookupFrom(paired, Head(found).inode, Append(build_path, Head(rest)), Tail(rest))

\* VirtualFileSystem::lookup_inner.
lookup_inner(caches, path) ==
    LookupFrom(insert_pairing(caches, <<>>, RootDirectory), RootDirectory, <<>>, path)

\* PathLookup::lookup.
lookup(caches, path) ==
    IF path \in DOMAIN caches.path_cache
    THEN [caches |-> caches, result |-> "Ok", inode |-> caches.path_cache[path]]
    ELSE lookup_inner(caches, path)

\* The inodes invalidate_cache(inode) works on, in the order in which it
\* reaches the code after its loop over the directory entries: the children
\* (but "." and "..") first, then the inode.
RECURSIVE InvalidateOrder(_, _)
RECURSIVE ChildrenOrder(_, _, _)
ChildrenOrder(entries, i, depth) ==
    IF i > Len(entries) THEN <<>>
    ELSE IF entries[i].name \in {".", ".."} THEN ChildrenOrder(entries, i + 1, depth)
    ELSE InvalidateOrder(entries[i].inode, depth) \o ChildrenOrder(entries, i + 1, depth)
InvalidateOrder(inode, depth) ==
    IF depth = 0 THEN <<>>
    ELSE (IF is_directory(inode) THEN ChildrenOrder(directory_entries(inode), 1, depth - 1)
          ELSE <<>>) \o <<inode>>

\* The paths of the cache that map to the inode, as the filter of
\* invalidate_cache collects them, in key order (shorter paths first).
RECURSIVE InOrder(_)
InOrder(paths) ==
    IF paths = {} THEN <<>>
    ELSE LET first == CHOOSE p \in paths : \A q \in paths : Len(p) <= Len(q)
         IN <<first>> \o InOrder(paths \ {first})
PathsOf(path_cache, inode) ==
    InOrder({p \in DOMAIN path_cache : path_cache[p] = inode})

NoCacheCall == [pc |-> "idle", inode |-> RootDirectory, work |-> <<>>, remove |-> <<>>]
NoCacheResult == [op |-> "none", path |-> <<>>, inode |-> RootDirectory, result |-> "none"]

\* VirtualFileSystem::new.
CacheNew ==
    /\ vc_path_cache = <<>>
    /\ vc_rev_path_cache = <<>>
    /\ vc_readers = 0
    /\ vc_call = NoCacheCall
    /\ vc_last = NoCacheResult

\* lookup(path).
VcLookup(path) ==
    /\ vc_call.pc = "idle"
    /\ LET r == lookup(Caches(vc_path_cache, vc_rev_path_cache), path)
       IN /\ vc_path_cache' = r.caches.path_cache
          /\ vc_rev_path_cache' = r.caches.rev_path_cache
          /\ vc_last' = [op |-> "lookup", path |-> path, inode |-> r.inode,
                         result |-> r.result]
    /\ UNCHANGED <<vc_readers, vc_call>>
    /\ UNCHANGED nonCacheVars

\* invalidate_cache(inode) is called, and recurses into the directories.
VcInvalidateCache(inode) ==
    /\ vc_call.pc = "idle"
    /\ vc_call' = [pc |-> "reverse_lookup", inode |-> inode,
                   work |-> InvalidateOrder(inode, Cardinality(CacheINodes)), remove |-> <<>>]
    /\ UNCHANGED <<vc_path_cache, vc_rev_path_cache, vc_readers, vc_last>>
    /\ UNCHANGED nonCacheVars

\* if let Some(reversed) = self.reverse_lookup(inode).
VcReverseLookup ==
    /\ vc_call.pc = "reverse_lookup"
    /\ LET inode == Head(vc_call.work)
       IN IF inode \in DOMAIN vc_rev_path_cache
          THEN vc_call' = [vc_call EXCEPT !.pc = "reversed",
                                          !.remove = <<vc_rev_path_cache[inode]>>]
          ELSE vc_call' = [vc_call EXCEPT !.pc = "read"]
    /\ UNCHANGED <<vc_path_cache, vc_rev_path_cache, vc_readers, vc_last>>
    /\ UNCHANGED nonCacheVars

\* let read = self.path_cache.read(), and the paths collected from it.
VcRead ==
    /\ vc_call.pc = "read"
    /\ vc_readers' = vc_readers + 1
    /\ vc_call' = [vc_call EXCEPT !.pc = "write",
                                  !.remove = PathsOf(vc_path_cache, Head(vc_call.work))]
    /\ UNCHANGED <<vc_path_cache, vc_rev_path_cache, vc_last>>
    /\ UNCHANGED nonCacheVars

\* self.path_cache.write().remove(..), of the reversed path (the entry of
\* rev_path_cache is removed next) and of the loop over the collected
\* paths: write() returns once no guard of path_cache is alive.
VcWrite ==
    /\ vc_call.pc \in {"reversed", "write"}
    /\ vc_call.remove # <<>>
    /\ vc_readers = 0
    /\ vc_path_cache' = map_remove(vc_path_cache, Head(vc_call.remove))
    /\ IF vc_call.pc = "reversed"
       THEN /\ vc_rev_path_cache' = map_remove(vc_rev_path_cache, Head(vc_call.work))
            /\ vc_call' = [vc_call EXCEPT !.pc = "read", !.remove = <<>>]
       ELSE /\ vc_call' = [vc_call EXCEPT !.remove = Tail(@)]
            /\ UNCHANGED vc_rev_path_cache
    /\ UNCHANGED <<vc_readers, vc_last>>
    /\ UNCHANGED nonCacheVars

\* The loop is over: Ok(()), and the read guard is dropped; the caller goes
\* on with its next inode, or invalidate_cache returns.
VcReturn ==
    /\ vc_call.pc = "write"
    /\ vc_call.remove = <<>>
    /\ vc_readers' = vc_readers - 1
    /\ IF Tail(vc_call.work) = <<>>
       THEN /\ vc_call' = NoCacheCall
            /\ vc_last' = [NoCacheResult EXCEPT !.op = "invalidate_cache",
                                                !.inode = vc_call.inode, !.result = "Ok"]
       ELSE /\ vc_call' = [vc_call EXCEPT !.pc = "reverse_lookup", !.work = Tail(@)]
            /\ UNCHANGED vc_last
    /\ UNCHANGED <<vc_path_cache, vc_rev_path_cache>>
    /\ UNCHANGED nonCacheVars

CacheNext ==
    \/ \E path \in LookupPaths : VcLookup(path)
    \/ \E inode \in CacheINodes : VcInvalidateCache(inode)
    \/ VcReverseLookup
    \/ VcRead
    \/ VcWrite
    \/ VcReturn

(***************************************************************************)
(* Specifications                                                          *)
(***************************************************************************)
\* The bump allocator alone, the bitmap allocator not yet built.
BumpOnlyInit == BumpInit /\ CacheNew /\ BlockNew /\ TrapNew /\ LoadNew /\ ParNew /\ VfsNew /\ ClintNew /\ PlicNew /\ ProcNew /\ SysNew /\ ExecNew /\ MmuNew /\ LockNew /\ BitmapNew /\ ByteNew
SpecBump == BumpOnlyInit /\ [][BumpNext]_vars

\* The bitmap allocator shared by concurrent callers. The entries of the
\* bitmap are ScaledWordBits wide here, so that requests cross entries.
BitmapInit == BumpInit /\ CacheNew /\ BlockNew /\ TrapNew /\ LoadNew /\ ParNew /\ VfsNew /\ ClintNew /\ PlicNew /\ ProcNew /\ SysNew /\ ExecNew /\ MmuNew /\ LockNew /\ ByteNew /\ \E data_len \in BitmapPageCounts : from_pages(data_len, ScaledWordBits)
SpecBitmap == BitmapInit /\ [][BitmapNext]_vars

\* The bitmap allocator used by one caller, entries 64 bits wide.
BitmapSeqInit == BumpInit /\ CacheNew /\ BlockNew /\ TrapNew /\ LoadNew /\ ParNew /\ VfsNew /\ ClintNew /\ PlicNew /\ ProcNew /\ SysNew /\ ExecNew /\ MmuNew /\ LockNew /\ ByteNew /\ \E data_len \in SeqPageCounts : from_pages(data_len, WORD_BITS)
SpecBitmapSeq == BitmapSeqInit /\ [][BitmapSeqNext]_vars

\* allocator_test, entries 64 bits wide.
ContentionInit == BumpInit /\ CacheNew /\ BlockNew /\ TrapNew /\ LoadNew /\ ParNew /\ VfsNew /\ ClintNew /\ PlicNew /\ ProcNew /\ SysNew /\ ExecNew /\ MmuNew /\ LockNew /\ ByteNew /\ \E data_len \in ContentionPageCounts : from_pages(data_len, WORD_BITS)
SpecContention == ContentionInit /\ [][ContentionNext]_vars

\* The byte allocator's table, the page allocators not yet built.
ByteInit == BumpInit /\ CacheNew /\ BlockNew /\ TrapNew /\ LoadNew /\ ParNew /\ VfsNew /\ ClintNew /\ PlicNew /\ ProcNew /\ SysNew /\ ExecNew /\ MmuNew /\ LockNew /\ BitmapNew /\ ByteNew
SpecByte == ByteInit /\ [][ByteNext]_vars

(***************************************************************************)
(* Claims about PageBitmapAllocator                                        *)
(***************************************************************************)
\* The page indexes of allocation a.
BmRange(a) == a.index..(a.index + a.count - 1)

\* The live allocations, each named by its caller and its place in what that
\* caller holds.
BmLive == {<<t, i>> \in BmThreads \X (1..(MaxHeld + SeqHeld)) : i <= Len(bm_held[t])}

\* No allocate or free call is in progress.
BmQuiescent == \A t \in BmThreads : bm_loc[t].pc = "idle"

\* C1: under any interleaving of concurrent allocate and free calls, no page
\* index belongs to two live allocations at the same time.
C1_LiveAllocationsDisjoint ==
    \A x \in BmLive, y \in BmLive :
        x # y => BmRange(bm_held[x[1]][x[2]]) \cap BmRange(bm_held[y[1]][y[2]]) = {}

\* Two callers hold an allocation each, the later one acquired by a call that
\* collided with the other's bits and unwound a span across two entries.
C1_Witness ==
    /\ \E t \in BmThreads, u \in BmThreads :
          t # u /\ bm_held[t] # <<>> /\ bm_held[u] # <<>>
    /\ bm_result.kind = "Ok"
    /\ bm_result.collided
    /\ bm_result.unwound

\* C2: every successful allocate(k) returns base + i with i + k <= P, P the
\* number of allocatable pages from_pages kept.
C2_AllocationsInsideOwnedPages ==
    \A x \in BmLive : bm_held[x[1]][x[2]].index + bm_held[x[1]][x[2]].count <= bm_pages

\* C3: whenever no allocate or free call is in progress, the set bits of the
\* bitmap are exactly the pages of the live allocations (so that every bit is
\* clear once every allocation has been freed).
C3_QuiescentBitsAreLivePages ==
    BmQuiescent =>
        bm_bits = UNION {BmRange(bm_held[x[1]][x[2]]) : x \in BmLive}

\* Every allocation has been freed again, after an allocate call that collided
\* and unwound a span across two entries.
C3_Witness ==
    /\ BmQuiescent
    /\ \A t \in BmThreads : bm_held[t] = <<>>
    /\ bm_result.kind = "Ok"
    /\ bm_result.collided
    /\ bm_result.unwound
    /\ bm_bits = {}

\* C4: in a bitmap whose bits are all clear, allocate(k) succeeds for every k
\* with 1 <= k <= capacity, capacity the number of allocatable pages.
C4_FreshAllocateWithinCapacitySucceeds ==
    (bm_result.kind = "OutOfMemory" /\ bm_result.fresh) => bm_result.count > bm_pages

\* The sum of the request sizes of the threads of allocator_test that run.
RequestSum == (ContentionThreads * (ContentionThreads + 1)) \div 2

\* C5: when the threads each loop allocate(thread_index + 1) followed by the
\* free of that allocation and the capacity is at least four times the sum of
\* their request sizes, no allocate call returns an error.
C5_NoErrorUnderContention ==
    bm_pages >= 4 * RequestSum => bm_result.kind # "OutOfMemory"

(***************************************************************************)
(* Claims about PageBumpAllocator                                          *)
(***************************************************************************)
BumpRange(r) == r.base..(r.base + r.count - 1)

\* C6: the page ranges returned by successful allocate calls are pairwise
\* disjoint, lie inside [start, end) of the assigned region (every range that
\* holds a page at all), and are handed out at increasing addresses: a call
\* that succeeds later starts at or after the end of every range returned
\* before it.
C6_BumpRangesDisjointInsideIncreasing ==
    /\ \A i \in 1..Len(bump_log) :
          bump_log[i].count > 0 =>
              /\ bump_region[1] <= bump_log[i].base
              /\ bump_log[i].base + bump_log[i].count <= bump_region[2]
    /\ \A i \in 1..Len(bump_log) : \A j \in 1..Len(bump_log) :
          i < j => /\ BumpRange(bump_log[i]) \cap BumpRange(bump_log[j]) = {}
                   /\ bump_log[i].base + bump_log[i].count <= bump_log[j].base

\* C7 as stated: allocate returns Uninitialized exactly when the end pointer
\* is null, leaving the walking pointer alone; with a region assigned it
\* succeeds exactly when walking + n <= end and otherwise returns OutOfMemory.
C7_BumpOutcomeAsStated ==
    bump_last.kind # "None" =>
        /\ (bump_last.kind = "Uninitialized") <=> (bump_last.endp = 0)
        /\ bump_last.kind = "Uninitialized" => bump_last.after = bump_last.base
        /\ bump_last.endp # 0 =>
              /\ (bump_last.kind = "Ok") <=> (bump_last.base + bump_last.count <= bump_last.endp)
              /\ bump_last.kind \in {"Ok", "OutOfMemory"}

\* C7 as amended: with a region assigned, allocate succeeds exactly when the
\* walking pointer is strictly below end and walking + n <= end; a request
\* made when walking = end is OutOfMemory even for n = 0.
C7_BumpOutcomeAmended ==
    bump_last.kind # "None" =>
        /\ (bump_last.kind = "Uninitialized") <=> (bump_last.endp = 0)
        /\ bump_last.kind = "Uninitialized" => bump_last.after = bump_last.base
        /\ bump_last.endp # 0 =>
              /\ (bump_last.kind = "Ok") <=>
                    (/\ bump_last.base < bump_last.endp
                     /\ bump_last.base + bump_last.count <= bump_last.endp)
              /\ bump_last.kind \in {"Ok", "OutOfMemory"}

\* Witness of C7: a zero-page request made when the region is exactly used up
\* has been answered with OutOfMemory.
C7_Witness ==
    /\ bump_last.kind = "OutOfMemory"
    /\ bump_last.count = 0
    /\ bump_last.base = bump_last.endp

(***************************************************************************)
(* Claims about AllocationTable                                            *)
(***************************************************************************)
\* The entries met by following the next indexes from `current`, at most
\* `fuel` of them.
RECURSIVE ListFrom(_, _, _)
ListFrom(entries, current, fuel) ==
    IF fuel = 0 THEN <<>>
    ELSE IF entries[current].next > 0
    THEN <<current>> \o ListFrom(entries, entries[current].next, fuel - 1)
    ELSE <<current>>

\* The list of the table: empty as long as entry 0 is invalid. A walk that
\* does not end shows as a list longer than the table.
ByteList(entries) ==
    IF entries[0].valid THEN ListFrom(entries, 0, ALLOCATION_TABLE_LENGTH + 1) ELSE <<>>

\* The sum of the lengths of the valid entries with an index below n.
RECURSIVE ValidLength(_, _)
ValidLength(entries, n) ==
    IF n = 0 THEN 0
    ELSE ValidLength(entries, n - 1) + (IF entries[n - 1].valid THEN entries[n - 1].length ELSE 0)

\* The sum of the lengths of a set of regions.
RECURSIVE RegionLength(_)
RegionLength(regions) ==
    IF regions = {} THEN 0
    ELSE LET r == CHOOSE r \in regions : TRUE IN r[2] + RegionLength(regions \ {r})

\* C8: after any sequence of add_region, alloc, free and
\* coalesce_free_regions, following the next indexes from entry 0 visits every
\* valid entry exactly once, visits no invalid entry, and terminates.
C8_ListCoversValidEntriesOnce ==
    LET list == ByteList(bt_entries)
    IN /\ Len(list) <= ALLOCATION_TABLE_LENGTH
       /\ \A i \in 1..Len(list), j \in 1..Len(list) : i # j => list[i] # list[j]
       /\ \A i \in 1..Len(list) : bt_entries[list[i]].valid
       /\ {list[i] : i \in 1..Len(list)} = {k \in TableIndexes : bt_entries[k].valid}

\* A coalesce has merged entries of a list that still has three or more.
C8_Witness ==
    /\ bt_last.op = "coalesce"
    /\ Len(ByteList(bt_entries)) >= 3
    /\ \E k \in TableIndexes : bt_last.before[k].valid /\ ~bt_entries[k].valid

\* C9: after any sequence of add_region, alloc, free and
\* coalesce_free_regions, the sum of the lengths of all valid entries equals
\* the sum of the lengths of the regions passed to add_region.
C9_LengthsConserved ==
    ValidLength(bt_entries, ALLOCATION_TABLE_LENGTH) = RegionLength(bt_regions)

\* Two entries that coalesce_free_regions has to merge: both free, the second
\* one starting where the first one ends, together no longer than 4096 bytes.
MergeDue(first, second) ==
    /\ ~first.allocated
    /\ ~second.allocated
    /\ pointer(first, pointer_upper_32) + first.length = pointer(second, pointer_upper_32)
    /\ first.length + second.length <= 4096

\* The summed lengths of the entries that followed position k of `list` in
\* the table `before` and are invalid in the table `after`.
RECURSIVE MergedLength(_, _, _, _)
MergedLength(before, after, list, k) ==
    IF k < Len(list) /\ ~after[list[k + 1]].valid
    THEN before[list[k + 1]].length + MergedLength(before, after, list, k + 1)
    ELSE 0

\* C10: when coalesce_free_regions returns, no two list-consecutive entries
\* remain that are both free, address-adjacent and of combined length <= 4096;
\* each such pair was merged into the earlier entry, the later one made
\* invalid, and allocated entries left untouched. After the scenario (one
\* 4096-byte region; a = alloc(128, 128); b = alloc(16, 4); c = alloc(16, 4);
\* free(a); free(b); coalesce) the list holds exactly three entries: a merged
\* free region of length >= 144, c still allocated, and the free tail.
C10_CoalescePostcondition ==
    LET before == bt_last.before
        was == ByteList(before)
        list == ByteList(bt_entries)
        Kept(k) == bt_entries[k].valid
    IN /\ bt_last.op = "coalesce" =>
           /\ \A i \in 1..(Len(list) - 1) :
                  ~MergeDue(bt_entries[list[i]], bt_entries[list[i + 1]])
           /\ list = SelectSeq(was, Kept)
           /\ \A i \in 1..Len(was) :
                  LET k == was[i]
                      merged == MergedLength(before, bt_entries, was, i)
                  IN /\ before[k].allocated /\ Kept(k) => bt_entries[k] = before[k]
                     /\ ~Kept(k) => ~before[k].allocated /\ i > 1
                     /\ Kept(k) => bt_entries[k].length = before[k].length + merged
                     /\ Kept(k) /\ merged > 0 => ~before[k].allocated
                     /\ Kept(k) => bt_entries[k].low = before[k].low
                     /\ Kept(k) => bt_entries[k].allocated = before[k].allocated
       /\ bt_script.step = 7 =>
           /\ Len(list) = 3
           /\ ~bt_entries[list[1]].allocated
           /\ bt_entries[list[1]].length >= 144
           /\ pointer(bt_entries[list[1]], pointer_upper_32) <= bt_script.a
           /\ bt_script.b + 16 <= pointer(bt_entries[list[1]], pointer_upper_32)
                                      + bt_entries[list[1]].length
           /\ bt_entries[list[2]].allocated
           /\ pointer(bt_entries[list[2]], pointer_upper_32) = bt_script.c
           /\ bt_entries[list[2]].length = 16
           /\ ~bt_entries[list[3]].allocated
           /\ bt_live = {[ptr |-> bt_script.c, size |-> 16]}

\* The scenario has been carried out to its end.
C10_Witness == bt_script.step = 7

(***************************************************************************)
(* Claims about the entry lock                                             *)
(***************************************************************************)
\* The entry lock, the allocators not yet built.
LockInit == BumpInit /\ CacheNew /\ BlockNew /\ TrapNew /\ LoadNew /\ ParNew /\ VfsNew /\ ClintNew /\ PlicNew /\ ProcNew /\ SysNew /\ ExecNew /\ MmuNew /\ BitmapNew /\ ByteNew /\ LockNew
SpecLock == LockInit /\ [][LockNext]_vars

\* The threads that hold a guard of entry e.
LkHolders(e) == {t \in LkThreads : e \in lk_guards[t]}

\* C11: at most one AllocationTableEntryGuard exists per entry at any time,
\* and the lock bit of an entry is set exactly while a guard of it exists:
\* lock() succeeds only if the bit was clear, a failed lock() does not disturb
\* the holder's lock, the setters of the holder never change the bit, and
\* only the drop of the holder's guard clears it.
C11_OneGuardPerEntry ==
    \A e \in LkEntries :
        /\ Cardinality(LkHolders(e)) <= 1
        /\ (LkHolders(e) # {}) <=> (LOCKED_BIT_MASK \subseteq lk_flags[e])
        /\ lk_last.op = "lock" /\ lk_last.entry = e /\ lk_last.ok
               => LkHolders(e) = {lk_last.thread}

\* A thread was refused the lock of an entry whose holder has written the
\* length and next fields with all their bits set.
C11_Witness ==
    /\ lk_last.op = "lock"
    /\ ~lk_last.ok
    /\ \E t \in LkThreads \ {lk_last.thread} : lk_last.entry \in lk_guards[t]
    /\ ALLOCATION_LENGTH_MASK \cup NEXT_ENTRY_INDEX_MASK \subseteq lk_flags[lk_last.entry]

(***************************************************************************)
(* Claims about the Sv39 PageTable                                         *)
(***************************************************************************)
\* One page table, the allocators not yet built.
MmuInit == BumpInit /\ CacheNew /\ BlockNew /\ TrapNew /\ LoadNew /\ ParNew /\ VfsNew /\ ClintNew /\ PlicNew /\ ProcNew /\ SysNew /\ ExecNew /\ BitmapNew /\ ByteNew /\ LockNew /\ MmuNew
SpecMmu == MmuInit /\ [][MmuNext]_vars

\* virt_addr and phys_addr are multiples of 4 KiB * 512^level.
AlignedTo(addr, level) == addr.off = 0 /\ addr.pn % (512 ^ level) = 0

\* Offsets into a range of `pages` pages, as <<pages, bytes>>: its first and
\* last byte, the last byte of its first page and the first of its second.
ProbeOffsets(pages) ==
    {<<0, 0>>, <<0, 4095>>, <<pages - 1, 4095>>} \cup (IF pages > 1 THEN {<<1, 0>>} ELSE {})

\* Translation of every probed address of range r gives the address at the
\* same offset from r.pa.
TranslatesRange(r) ==
    \A d \in ProbeOffsets(r.pages) :
        virtual_to_physical_address(mm_tables, AddrPlus(r.va, d[1], d[2]))
            = AddrPlus(r.pa, d[1], d[2])

\* C12: for every level L, every va and pa aligned to 4 KiB * 512^L and every
\* offset d < 4 KiB * 512^L, after map(va, pa, L) on an empty table
\* virtual_to_physical_address(va + d) returns pa + d.
C12_MapThenTranslate ==
    /\ mm_ops = 1
    /\ mm_last.op = "map"
    /\ AlignedTo(mm_last.va, mm_last.level)
    /\ AlignedTo(mm_last.pa, mm_last.level)
    => TranslatesRange(mm_last)

\* The virtual pages of two ranges do not meet.
Apart(r, q) == r.va.pn + r.pages <= q.va.pn \/ q.va.pn + q.pages <= r.va.pn

\* The page of address a lies in range r.
Inside(a, r) == r.va.pn <= a.pn /\ a.pn < r.va.pn + r.pages

\* The last byte before and the first byte after every mapped range.
Neighbours ==
    {AddrPlus(mm_ranges[i].va, -1, 4095) : i \in {j \in 1..Len(mm_ranges) : mm_ranges[j].va.pn > 0}}
        \cup {AddrPlus(mm_ranges[i].va, mm_ranges[i].pages, 0) : i \in 1..Len(mm_ranges)}

\* C13: after any sequence of map_range calls over pairwise non-overlapping
\* virtual ranges, every virtual address inside a mapped range translates to
\* pa_base + (va - va_base) and every virtual address outside all mapped
\* ranges translates to None.
C13_MapRangeRoundTrip ==
    /\ mm_freed = <<>>
    /\ \A i \in 1..Len(mm_ranges) : mm_ranges[i].op = "map_range"
    /\ \A i \in 1..Len(mm_ranges), j \in 1..Len(mm_ranges) :
           i # j => Apart(mm_ranges[i], mm_ranges[j])
    => /\ \A i \in 1..Len(mm_ranges) : TranslatesRange(mm_ranges[i])
       /\ \A a \in Neighbours :
              (\A i \in 1..Len(mm_ranges) : ~Inside(a, mm_ranges[i]))
                  => virtual_to_physical_address(mm_tables, a) = NoAddr

\* map_range(0x8000_0000, 0x8000_0000, 512 pages) with RW flags was the one
\* call made on the empty table.
SuperpageScenario ==
    /\ mm_ops = 1
    /\ mm_last.op = "map_range"
    /\ mm_last.va = Addr(524288, 0)
    /\ mm_last.pa = Addr(524288, 0)
    /\ mm_last.pages = 512
    /\ mm_last.perm = PermReadWrite

\* Exactly one leaf is installed, in a level-1 table.
OneLevel1Leaf ==
    /\ Len(mm_last.steps) = 1
    /\ mm_last.steps[1].level = 1
    /\ DOMAIN mm_tables[RootTable] = {2}
    /\ ~is_leaf(mm_tables[RootTable][2])
    /\ LET level1_table == physical_address(mm_tables[RootTable][2]).pn
       IN /\ DOMAIN mm_tables[level1_table] = {0}
          /\ is_leaf(mm_tables[level1_table][0])
          /\ DOMAIN mm_tables = {RootTable, level1_table}

\* C14 as stated: after map_range(0x8000_0000, 0x8000_0000, 512 pages) with
\* RW flags on an empty table exactly one level-1 leaf is installed,
\* translating 0x8000_0FFF returns 0x8000_0FFF, translating 0x8020_0000
\* returns 0x8020_0000, and translating 0x8040_0000 returns None.
C14_SuperpageAsStated ==
    SuperpageScenario =>
        /\ OneLevel1Leaf
        /\ virtual_to_physical_address(mm_tables, Addr(524288, 4095)) = Addr(524288, 4095)
        /\ virtual_to_physical_address(mm_tables, Addr(524800, 0)) = Addr(524800, 0)
        /\ virtual_to_physical_address(mm_tables, Addr(525312, 0)) = NoAddr

\* C14 amended: after map_range(0x8000_0000, 0x8000_0000, 512 pages) with RW
\* flags on an empty table exactly one level-1 leaf is installed, translating
\* 0x8000_0FFF returns 0x8000_0FFF, and translating 0x8020_0000, the first
\* address after the range, returns None, as translating 0x8040_0000 does.
C14_SuperpageAmended ==
    SuperpageScenario =>
        /\ OneLevel1Leaf
        /\ virtual_to_physical_address(mm_tables, Addr(524288, 4095)) = Addr(524288, 4095)
        /\ virtual_to_physical_address(mm_tables, Addr(524800, 0)) = NoAddr
        /\ virtual_to_physical_address(mm_tables, Addr(525312, 0)) = NoAddr

\* The superpage scenario has been carried out.
C14_Witness == SuperpageScenario /\ ~mm_last.panic

\* The largest level whose superpage fits: both addresses are multiples of
\* 4 KiB * 512^L and at least 512^L pages remain; None if not even level 0 fits.
LargestFit(va, pa, remaining) ==
    LET fits == {l \in 0..2 : AlignedTo(va, l) /\ AlignedTo(pa, l) /\ remaining >= 512 ^ l}
    IN IF fits = {} THEN None ELSE CHOOSE l \in fits : \A k \in fits : k <= l

\* C15: at each iteration map_range maps with the largest level L in {2,1,0}
\* such that both va and pa are multiples of 4 KiB * 512^L and at least 512^L
\* pages remain, advances va, pa and the remaining count by that superpage,
\* panics only when not even level 0 fits, and terminates having mapped
\* exactly n_pages pages.
C15_LargestLevelChosen ==
    mm_last.op = "map_range" =>
        LET steps == mm_last.steps
            first == [va |-> mm_last.va, pa |-> mm_last.pa, remaining |-> mm_last.pages]
            At(i) == IF i = 1 THEN first
                     ELSE [va |-> AddrPlus(steps[i - 1].va, 512 ^ steps[i - 1].level, 0),
                           pa |-> AddrPlus(steps[i - 1].pa, 512 ^ steps[i - 1].level, 0),
                           remaining |-> steps[i - 1].remaining - 512 ^ steps[i - 1].level]
            end == At(Len(steps) + 1)
        IN /\ \A i \in 1..Len(steps) :
                  /\ steps[i].va = At(i).va
                  /\ steps[i].pa = At(i).pa
                  /\ steps[i].remaining = At(i).remaining
                  /\ steps[i].level = LargestFit(steps[i].va, steps[i].pa, steps[i].remaining)
           /\ mm_last.panic <=> (end.remaining > 0 /\ LargestFit(end.va, end.pa, end.remaining) = None)
           /\ ~mm_last.panic => end.remaining = 0

\* How often page p occurs in the sequence pages.
Occurrences(pages, p) == Cardinality({i \in 1..Len(pages) : pages[i] = p})

\* C16: after any sequence of map / map_range calls followed by
\* unmap_all(free_page), free_page has been called exactly once for each
\* table page that alloc_page returned during mapping, never for an address
\* that is the target of a leaf mapping, and every top-level entry that
\* pointed to a sub-table is invalid.
C16_UnmapAllBalance ==
    mm_last.op = "unmap_all" =>
        /\ \A i \in 1..Len(mm_allocated) : Occurrences(mm_freed, mm_allocated[i]) = 1
        /\ \A i \in 1..Len(mm_freed) : Occurrences(mm_allocated, mm_freed[i]) = 1
        /\ \A i \in 1..Len(mm_freed), j \in 1..Len(mm_ranges) :
               ~(mm_ranges[j].pa.pn <= mm_freed[i]
                     /\ mm_freed[i] < mm_ranges[j].pa.pn + mm_ranges[j].pages)
        /\ PointerIndexes(mm_tables, RootTable) = {}

(***************************************************************************)
(* Claims about SimpleExecutor                                             *)
(***************************************************************************)
\* One executor, the allocators not yet built. The thread that called run
\* or run_until_pending keeps running: it makes the next poll in the end.
ExecInit == BumpInit /\ CacheNew /\ BlockNew /\ TrapNew /\ LoadNew /\ ParNew /\ VfsNew /\ ClintNew /\ PlicNew /\ ProcNew /\ SysNew /\ BitmapNew /\ ByteNew /\ LockNew /\ MmuNew /\ ExecNew
SpecExec == ExecInit /\ [][ExecNext]_vars /\ WF_vars(ExSweepStep)

\* The polls of a task, as positions of ex_log, and whether one was Ready.
PollsOf(t) == {i \in 1..Len(ex_log) : ex_log[i].task = t}
Completed(t) == \E i \in PollsOf(t) : ex_log[i].ready
Spawned == 1..ex_spawned
InQueue(t) == \E k \in 1..Len(ex_queue) : ex_queue[k] = t
\* The Pending returns of a future before it is Ready.
PendingReturns(future) == IF future.kind = "yield" THEN 1 ELSE future.left
\* The future a task was spawned with.
SpawnedFuture(t) == IF PollsOf(t) = {} THEN ex_future[t] ELSE ex_log[CHOOSE i \in PollsOf(t) : \A j \in PollsOf(t) : i <= j].future

\* C17: a task whose future returns Pending N times and then Ready (N = 0:
\* Ready on the first poll, N = 1: task_yield) is polled at most N + 1
\* times, exactly N + 1 times once it returned Ready, and is then out of the
\* queue for good: only its last poll is Ready.
C17_PolledNPlusOneTimes ==
    \A t \in Spawned :
        SpawnedFuture(t).kind # "never" =>
            /\ Cardinality(PollsOf(t)) <= PendingReturns(SpawnedFuture(t)) + 1
            /\ Completed(t) =>
                /\ Cardinality(PollsOf(t)) = PendingReturns(SpawnedFuture(t)) + 1
                /\ ~InQueue(t)
                /\ \A i \in PollsOf(t) : ex_log[i].ready => \A j \in PollsOf(t) : j <= i
            /\ ~Completed(t) => InQueue(t)
\* run returned after it polled a task_yield task twice, a task Ready at once
\* once and a task Pending twice three times.
C17_Witness ==
    /\ ex_last.op = "run"
    /\ \E t, u, v \in Spawned :
        /\ SpawnedFuture(t).kind = "yield" /\ Completed(t) /\ Cardinality(PollsOf(t)) = 2
        /\ SpawnedFuture(u).kind = "count" /\ SpawnedFuture(u).left = 0 /\ Completed(u)
        /\ SpawnedFuture(v).kind = "count" /\ SpawnedFuture(v).left = MaxPending /\ Completed(v)

\* Polls i < j are consecutive polls of one task.
ConsecutivePolls(i, j) ==
    /\ i < j
    /\ ex_log[i].task = ex_log[j].task
    /\ \A k \in (i + 1)..(j - 1) : ex_log[k].task # ex_log[i].task
\* The tasks polled after poll i and before poll j, in order.
PolledBetween(i, j) == [k \in 1..(j - i - 1) |-> ex_log[i + k].task]

\* C18: tasks are first polled in spawn order; between two consecutive polls
\* of a task, the tasks that were queued when it was re-queued are polled
\* once each, in the order they had in the queue, and no other task is.
C18_FifoOrder ==
    /\ \A j \in 1..Len(ex_log) : \A t \in 1..(ex_log[j].task - 1) :
            \E k \in 1..(j - 1) : ex_log[k].task = t
    /\ \A i, j \in 1..Len(ex_log) :
            ConsecutivePolls(i, j) => PolledBetween(i, j) = ex_log[i].rest
    /\ \A k, l \in 1..Len(ex_queue) : ex_queue[k] = ex_queue[l] => k = l
\* A task was polled twice, and the two tasks queued behind it the first
\* time were polled in between, one of them for the last time.
C18_Witness ==
    \E i, j \in 1..Len(ex_log) :
        /\ ConsecutivePolls(i, j)
        /\ Len(ex_log[i].rest) = 2
        /\ \E k \in (i + 1)..(j - 1) : ex_log[k].ready
        /\ \E k \in (i + 1)..(j - 1) : ~ex_log[k].ready

\* Every sweep of a call but the last one completed a task.
FirstIdleSweep(sweeps) ==
    /\ sweeps # <<>>
    /\ \A k \in 1..Len(sweeps) : sweeps[k] <=> k < Len(sweeps)
\* No task spawned so far stays Pending for ever.
AllBecomeReady == \A t \in Spawned : ex_future[t].kind # "never"

\* C19: run_until_pending returns true after the first sweep of the queue in
\* which no task became Ready, and false only on an empty queue; the queue
\* holds exactly the spawned tasks that were not yet Ready; run returns only
\* when the queue is empty, runs no further once it is, and returns in the
\* end when every spawned task becomes Ready.
C19_LoopExits ==
    /\ [](ex_last.op = "run_until_pending" /\ ex_last.ret = "true" => FirstIdleSweep(ex_last.sweeps))
    /\ [](\A t \in Spawned : InQueue(t) <=> ~Completed(t))
    /\ [](ex_ctl.mode # "none" => ex_queue # <<>>)
    /\ [][ex_last' # ex_last /\ ex_last'.ret = "false" => ex_queue' = <<>> /\ ex_ctl' = Idle]_vars
    /\ [][(ex_ctl.mode = "run" /\ ex_ctl' = Idle) \/ (ex_last' # ex_last /\ ex_last'.op = "run")
            => ex_queue' = <<>> /\ ex_ctl' = Idle /\ ex_last'.op = "run"]_vars
    /\ ((ex_ctl.mode = "run" /\ AllBecomeReady) ~> (ex_ctl = Idle /\ ex_last.op = "run" /\ ex_queue = <<>>))
\* Under run, run_until_pending returned after a sweep that completed a task
\* and one that completed none; the tasks still Pending are queued, and run
\* goes on.
C19_Witness ==
    /\ ex_ctl.mode = "run"
    /\ ex_last = Returned("run_until_pending", "true", <<TRUE, FALSE>>)
    /\ Len(ex_queue) = 2
    /\ \E t \in Spawned : Completed(t)

(***************************************************************************)
(* Claims about the write syscall                                          *)
(***************************************************************************)
SysInit == BumpInit /\ CacheNew /\ BlockNew /\ TrapNew /\ LoadNew /\ ParNew /\ VfsNew /\ ClintNew /\ PlicNew /\ ProcNew /\ BitmapNew /\ ByteNew /\ LockNew /\ MmuNew /\ ExecNew /\ SysNew
SpecSys == SysInit /\ [][SysNext]_vars

\* A write syscall was just handled.
WriteHandled ==
    /\ sy_ops' = sy_ops + 1 /\ sy_pages' = sy_pages
    /\ sy_last'.number = SYS_WRITE
Unmapped(address) == virtual_to_physical_address(mm_tables, address) = NoAddr

\* C20: a write whose buffer is unmapped in the page table of the caller
\* leaves -14 in x10, one whose buffer is mapped and whose descriptor is
\* absent leaves -9; either way x10 is negative as an isize and nothing is
\* sent to the UART.
C20_WriteErrorPaths ==
    [][WriteHandled =>
        /\ Unmapped(sy_last'.buffer) =>
                sy_x10' = i64_to_u64(-14) /\ (XLEN - 1) \in sy_x10' /\ sy_uart' = sy_uart
        /\ ~Unmapped(sy_last'.buffer) /\ sy_last'.fd \notin file_descriptors =>
                sy_x10' = i64_to_u64(-9) /\ (XLEN - 1) \in sy_x10' /\ sy_uart' = sy_uart]_vars

(***************************************************************************)
(* Claims about Process                                                    *)
(***************************************************************************)
ProcInit == BumpInit /\ CacheNew /\ BlockNew /\ TrapNew /\ LoadNew /\ ParNew /\ VfsNew /\ ClintNew /\ PlicNew /\ BitmapNew /\ ByteNew /\ LockNew /\ MmuNew /\ ExecNew /\ SysNew /\ ProcNew
SpecProc == ProcInit /\ [][ProcNext]_vars

\* C21: once a process that was created is dropped, the pages of the bitmap
\* allocator in use are those that were in use before it was created.
C21_DropFreesEveryPage ==
    pr_proc.state = "dropped" => BitmapAllocated = pr_before

\* The permission bits of the leaf that translates virt_addr, None if none.
RECURSIVE PermissionsFrom(_, _, _, _, _)
PermissionsFrom(tables, table, index, level_index, virt_addr) ==
    LET entry == EntryAt(tables, table, index)
    IN IF ~entry.valid THEN None
       ELSE IF is_leaf(entry) THEN entry.perm
       ELSE IF level_index = 0 THEN None
       ELSE PermissionsFrom(tables, physical_address(entry).pn,
                            vpn(virt_addr, level_index - 1), level_index - 1, virt_addr)
PermissionsAt(virt_addr) == PermissionsFrom(mm_tables, RootTable, vpn(virt_addr, 2), 2, virt_addr)

\* The offset in the ELF image of the byte copied to a physical address,
\* None if no byte was.
ImageByteAt(phys_addr) ==
    LET at(c) == (phys_addr.pn - c.base) * PAGE_SIZE + phys_addr.off
        hits == {k \in 1..Len(pr_proc.copies) :
                    /\ phys_addr # NoAddr
                    /\ at(pr_proc.copies[k]) >= pr_proc.copies[k].page_offset
                    /\ at(pr_proc.copies[k]) < pr_proc.copies[k].page_offset
                                                + pr_proc.copies[k].file_length}
    IN IF hits = {} THEN None
       ELSE LET c == pr_proc.copies[CHOOSE k \in hits : \A l \in hits : l <= k]
            IN c.file_offset + at(c) - c.page_offset
\* Offsets into a range of n bytes: its ends and the page borders.
RangeProbes(n) == {k \in {0, 2047, 2048, 4095, 4096, n - 1} : k >= 0 /\ k < n}
LoadedAsClaimed(header) ==
    IF header.header_type = "Load"
    THEN /\ \A k \in RangeProbes(header.memory_size) :
                /\ virtual_to_physical_address(mm_tables, AddrPlus(header.virtual_addr, 0, k)) # NoAddr
                /\ PermissionsAt(AddrPlus(header.virtual_addr, 0, k)) = entry_permissions(header.flags)
         /\ \A k \in RangeProbes(header.file_size) :
                ImageByteAt(virtual_to_physical_address(mm_tables, AddrPlus(header.virtual_addr, 0, k)))
                    = header.offset + k
    ELSE virtual_to_physical_address(mm_tables, header.virtual_addr) = NoAddr

\* C22: after from_elf_file, every address of [vaddr, vaddr + memsz) of a
\* LOAD header is mapped with the permissions of the header, page-aligned
\* vaddr or not, the bytes of [vaddr, vaddr + filesz) are those of the image
\* at [offset, offset + filesz), and no other header is mapped.
C22_ElfLoadMapped ==
    pr_proc.state = "live" /\ pr_proc.by = "from_elf_file" =>
        \A i \in 1..Len(pr_proc.elf) : LoadedAsClaimed(pr_proc.elf[i])

(***************************************************************************)
(* Claims about PLICDriver                                                 *)
(***************************************************************************)
PlicInit == BumpInit /\ CacheNew /\ BlockNew /\ TrapNew /\ LoadNew /\ ParNew /\ VfsNew /\ ClintNew /\ BitmapNew /\ ByteNew /\ LockNew /\ MmuNew /\ ExecNew /\ SysNew /\ ProcNew /\ PlicNew
SpecPlic == PlicInit /\ [][PlicNext]_vars

\* Bit src of the enable bitmap of a hart: the two words of the hart, the
\* low one first.
EnableBit(mmio, hart, src) ==
    IF src < ENABLE_WORD_BITS
    THEN src \in mmio[INTERRUPT_ENABLE_REGISTER_BASE + hart * INTERRUPT_ENABLE_STRIDE]
    ELSE (src - ENABLE_WORD_BITS) \in mmio[INTERRUPT_ENABLE_REGISTER_BASE + hart * INTERRUPT_ENABLE_STRIDE + 4]

\* C23: after enable(hart, src) bit src of the hart's enable bitmap is set,
\* after disable(hart, src) it is clear, a call that finds the bit as it
\* leaves it changes nothing, and no call changes the bit of another
\* source or hart, in any interleaving of the calls.
C23_EnableBits ==
    [][pl_last'.op # "none" =>
        /\ EnableBit(pl_mmio', pl_last'.hart, pl_last'.source) <=> pl_last'.op = "enable"
        /\ \A h \in HartIds, s \in 0..(2 * ENABLE_WORD_BITS - 1) :
                h # pl_last'.hart \/ s # pl_last'.source
                    => (EnableBit(pl_mmio', h, s) <=> EnableBit(pl_mmio, h, s))
        /\ (EnableBit(pl_mmio, pl_last'.hart, pl_last'.source) <=> pl_last'.op = "enable")
                => pl_mmio' = pl_mmio]_vars
\* Source 53 of hart 1 was just disabled while source 32 of hart 1 and
\* source 53 of hart 0 stay enabled.
C23_Witness ==
    /\ pl_last = [op |-> "disable", hart |-> 1, source |-> 53]
    /\ EnableBit(pl_mmio, 1, 32) /\ EnableBit(pl_mmio, 0, 53) /\ EnableBit(pl_mmio, 1, 1)
    /\ ~EnableBit(pl_mmio, 1, 53)

(***************************************************************************)
(* CLINT timer.                                                            *)
(***************************************************************************)
ClintInit == BumpInit /\ CacheNew /\ BlockNew /\ TrapNew /\ LoadNew /\ ParNew /\ VfsNew /\ ClintNew /\ PlicNew /\ BitmapNew /\ ByteNew /\ LockNew /\ MmuNew /\ ExecNew /\ SysNew /\ ProcNew
SpecClint == ClintInit /\ [][ClintNext]_vars

\* A set_time call has returned in this step.
SetTimeCalled == cl_last'.op = "set_time" /\ cl_ops' = cl_ops + 1 /\ cl_mtime' = cl_mtime

\* C24: for every machine time of the hart and every delta_us, set_time
\* writes mtimecmp[hart] = mtime[hart] + 10 * delta_us.
C24_SetTimeWrites ==
    [][SetTimeCalled =>
          /\ ~cl_last'.panicked
          /\ cl_mtimecmp'[cl_last'.hart]
                 = cl_mtime[cl_last'.hart] + TICKS_PER_MICROSECOND * cl_last'.delta]_vars

(***************************************************************************)
(* VirtualFileSystem mounting and routing.                                 *)
(***************************************************************************)
VfsInit == BumpInit /\ CacheNew /\ BlockNew /\ TrapNew /\ LoadNew /\ ParNew /\ VfsNew /\ ClintNew /\ PlicNew /\ BitmapNew /\ ByteNew /\ LockNew /\ MmuNew /\ ExecNew /\ SysNew /\ ProcNew
SpecVfs == VfsInit /\ [][VfsNext]_vars

\* The last request was made on this inode reference.
Requested(inode) == vf_last.op \in Requests /\ vf_last.inode = inode
\* The mounts made at an inode, as positions of vf_log, and the position in
\* the device list of the filesystem mounted there last.
MountsAt(inode) == {k \in DOMAIN vf_log : vf_log[k].inode = inode}
LastMountAt(inode) == CHOOSE k \in MountsAt(inode) : \A j \in MountsAt(inode) : j <= k
MountedPosition(inode) == LastMountAt(inode) + 1

\* C25: every filesystem of the device list holds the id of its 1-based
\* position (the initial empty filesystem 1, the k-th mount k + 1); a
\* request on a mount point is answered by the filesystem mounted there for
\* its root inode; any other request with device d >= 1 is answered by the
\* filesystem holding id d for the inode itself; device 0 or a device not
\* in the list yields BadInodeWrongDevice.
C25_MountAndRoute ==
    /\ \A p \in DOMAIN vf_devices : vf_devices[p].id = p
    /\ vf_devices[1].kind = "empty"
    /\ \A k \in DOMAIN vf_log : vf_devices[k + 1].kind = vf_log[k].kind
    /\ \A inode \in RequestINodes : Requested(inode) =>
          IF MountsAt(inode) # {}
          THEN /\ vf_last.result.served = MountedPosition(inode)
               /\ vf_last.result.asked = fs_root_inode(vf_devices[MountedPosition(inode)])
          ELSE IF inode.device >= 1 /\ \E p \in DOMAIN vf_devices : vf_devices[p].id = inode.device
               THEN /\ vf_last.result.served \in DOMAIN vf_devices
                    /\ vf_devices[vf_last.result.served].id = inode.device
                    /\ vf_last.result.asked = inode
               ELSE vf_last.result = BadInodeWrongDevice(inode)

\* Three mounts made, two of them at the same inode, and a request on that
\* mount point answered by the filesystem mounted there last.
C25_Witness ==
    /\ Len(vf_log) = 3
    /\ vf_log[1].inode = INodeReference(0, 1) /\ vf_log[3].inode = INodeReference(0, 1)
    /\ Requested(INodeReference(0, 1))
    /\ vf_last.result.served = 4
    /\ vf_last.result.status = "Ok"

(***************************************************************************)
(* The reservation primitive of BitmapLock under concurrent callers.       *)
(***************************************************************************)
\* The bits of the sub-spans a try_set in progress has set in earlier
\* entries, and the bits of what a caller holds or is still freeing.
SpanBits(loc) == UNION {s[1]..(s[1] + s[2] - 1) : s \in {loc.spans[i] : i \in DOMAIN loc.spans}}
HeldBits(t) ==
    UNION {BmRange(bm_held[t][i]) : i \in DOMAIN bm_held[t]}
        \cup (IF bm_loc[t].pc = "free"
              THEN bm_loc[t].cur..(bm_loc[t].cur + bm_loc[t].left - 1) ELSE {})
\* The bits caller t has set itself and not yet cleared.
OwnBits(t) ==
    HeldBits(t) \cup SpanBits(bm_loc[t])
        \cup (IF bm_loc[t].pc = "clear_excess" THEN bm_loc[t].excess ELSE {})
OthersBits(t) == UNION {OwnBits(u) : u \in BmThreads \ {t}}

\* Caller t makes this step.
StepOf(t) == bm_loc'[t] # bm_loc[t] \/ bm_held'[t] # bm_held[t]
Cleared == bm_bits \ bm_bits'
NewlySet == bm_bits' \ bm_bits

\* The fetch_or of caller t collides / the attempt of caller t succeeds.
Collides(t) == bm_loc[t].pc = "or" /\ bm_loc'[t].pc = "clear_excess"
Succeeds(t) == bm_loc[t].pc = "or" /\ Len(bm_held'[t]) = Len(bm_held[t]) + 1

\* C26: a try_set that collides takes back exactly the bits it newly set
\* itself, in the colliding entry and in every earlier sub-span of a request
\* that crosses an entry boundary, and never a bit another caller had set;
\* a successful attempt has set exactly the `count` requested bits.
C26_TrySetUndoesOwnBitsOnly ==
    [][\A t \in BmThreads : StepOf(t) =>
          /\ Collides(t) => bm_loc'[t].excess = NewlySet
          /\ bm_loc[t].pc = "clear_excess" =>
                /\ Cleared = bm_loc[t].excess
                /\ bm_loc'[t].pc # "unwind" => SpanBits(bm_loc[t]) = {}
          /\ bm_loc[t].pc = "unwind" =>
                /\ Cleared = SpanBits(bm_loc[t]) \ SpanBits(bm_loc'[t])
                /\ Cleared # {}
                /\ bm_loc'[t].pc # "unwind" => SpanBits(bm_loc'[t]) = {}
          /\ bm_loc[t].pc \in {"clear_excess", "unwind"} =>
                /\ Cleared \cap OthersBits(t) = {}
                /\ OthersBits(t) \subseteq bm_bits'
          /\ Succeeds(t) =>
                LET a == bm_held'[t][Len(bm_held'[t])]
                IN  /\ BmRange(a) = SpanBits(bm_loc[t]) \cup NewlySet
                    /\ Cardinality(BmRange(a)) = bm_loc[t].count
                    /\ SpanBits(bm_loc[t]) \cap NewlySet = {}
                    /\ Cleared = {}]_vars

\* A try_set that had set a sub-span in one entry collided in the next entry
\* with bits of the other caller and is about to take the sub-span back.
C26_Witness ==
    \E t \in BmThreads :
        /\ bm_loc[t].pc = "unwind"
        /\ SpanBits(bm_loc[t]) # {}
        /\ OthersBits(t) # {}

(***************************************************************************)
(* PageBitmapAllocator out of memory, one caller.                          *)
(***************************************************************************)
\* A run of k free pages among the pages the allocator owns, with the
\* pages of `taken` in use.
FreeRunExists(k, taken) ==
    \E i \in 0..(bm_pages - k) : (i..(i + k - 1)) \cap taken = {}

\* The allocate call of the caller returns in this step.
AllocateReturns == bm_result' # bm_result \/ Succeeds(1)
ReturnsOutOfMemory == bm_result' # bm_result /\ bm_result'.kind = "OutOfMemory"

\* allocate(k) succeeds only where a run of k free pages exists.
NoRunThenOutOfMemory ==
    Succeeds(1) => FreeRunExists(bm_loc[1].count, HeldBits(1))
\* A failed allocate leaves the bitmap as it was before the call: the bits
\* of what the caller holds.
FailedLeavesBitmap ==
    ReturnsOutOfMemory => bm_bits' = HeldBits(1) /\ bm_held' = bm_held
\* The request failed with pages in use, everything was freed since, and
\* the same request is made again: it succeeds when the pages the allocator
\* owns hold a run of that length.
FreedThenSucceeds ==
    (/\ bm_result.kind = "OutOfMemory" /\ ~bm_result.fresh
     /\ AllocateReturns
     /\ bm_loc[1].fresh /\ bm_loc[1].count = bm_result.count
     /\ FreeRunExists(bm_result.count, {}))
        => Succeeds(1)

\* C27: allocate(k) returns OutOfMemory when no run of k contiguous free
\* pages exists; a failed allocate without concurrent callers leaves the
\* bitmap exactly as it was; after the free of the blocking allocation the
\* same request succeeds.
C27_OutOfMemory ==
    [][NoRunThenOutOfMemory /\ FailedLeavesBitmap /\ FreedThenSucceeds]_vars

(***************************************************************************)
(* Allocation safety of the byte allocator, one caller.                    *)
(***************************************************************************)
\* The bytes of a live allocation and of a table entry.
LiveBytes(a) == a.ptr..(a.ptr + a.size - 1)
EntryBytes(entry) ==
    pointer(entry, pointer_upper_32)..(pointer(entry, pointer_upper_32) + entry.length - 1)

\* C28: every pointer alloc(s, a) returns is a multiple of a and [p, p + s)
\* lies inside one entry marked allocated; after any sequence of alloc, free
\* and coalesce_free_regions the byte ranges of distinct live allocations do
\* not overlap and no byte of a live allocation lies in a free entry.
C28_AllocationSafety ==
    /\ (bt_last.op = "alloc" /\ bt_last.ptr # None) =>
          /\ bt_last.ptr % bt_last.align = 0
          /\ [ptr |-> bt_last.ptr, size |-> bt_last.size] \in bt_live
    /\ \A a \in bt_live :
          /\ \E k \in TableIndexes :
                /\ bt_entries[k].valid /\ bt_entries[k].allocated
                /\ LiveBytes(a) \subseteq EntryBytes(bt_entries[k])
          /\ \A k \in TableIndexes :
                (bt_entries[k].valid /\ ~bt_entries[k].allocated)
                    => LiveBytes(a) \cap EntryBytes(bt_entries[k]) = {}
          /\ \A b \in bt_live : a # b => LiveBytes(a) \cap LiveBytes(b) = {}

\* Three allocations are live, the last one placed with alignment slack
\* inside its entry (the region's base is aligned to 4 bytes only).
C28_Witness ==
    /\ Cardinality(bt_live) >= 3
    /\ bt_last.op = "alloc" /\ bt_last.align = 128
    /\ \E k \in TableIndexes :
          /\ bt_entries[k].valid /\ bt_entries[k].allocated
          /\ pointer(bt_entries[k], pointer_upper_32) < bt_last.ptr
          /\ bt_last.ptr < pointer(bt_entries[k], pointer_upper_32) + bt_entries[k].length

(***************************************************************************)
(* PageBumpAllocator after a failed allocation.                            *)
(***************************************************************************)
\* The pages that were free when the call with result r was made.
FreeBefore(r) == IF r.base < r.endp THEN r.endp - r.base ELSE 0

\* C30: after allocate(n) failed with OutOfMemory, a following allocate(m)
\* with m no larger than the number of pages that were free before the
\* failed call succeeds.
C30_FailedAllocateKeepsCapacity ==
    [][(/\ bump_last.kind = "OutOfMemory"
        /\ bump_last' # bump_last
        /\ bump_last'.count >= 1
        /\ bump_last'.count <= FreeBefore(bump_last))
          => bump_last'.kind = "Ok"]_vars

(***************************************************************************)
(* The byte allocator under parallel callers.                              *)
(***************************************************************************)
ParallelInit == BumpInit /\ CacheNew /\ BlockNew /\ TrapNew /\ LoadNew /\ ParNew /\ VfsNew /\ ClintNew /\ PlicNew /\ BitmapNew /\ ByteNew /\ LockNew /\ MmuNew /\ ExecNew /\ SysNew /\ ProcNew
SpecByteParallel == ParallelInit /\ [][ParallelNext]_vars

\* Every call has returned.
AllReturned == \A t \in BpCallers : bp_call[t].pc = "idle"

\* C29: in any interleaving of two callers running alloc, free and
\* coalesce_free_regions on one table, no caller reaches a panic
\* (assert!(guard.valid()), todo!(), "Bad Link", panic!()), and once both
\* have finished the list of the table covers the valid entries once and
\* the lengths of the valid entries add up to the lengths of the regions.
C29_ParallelCallersNoPanic ==
    /\ \A t \in BpCallers : bp_call[t].pc # "panicked"
    /\ AllReturned =>
          /\ C8_ListCoversValidEntriesOnce
          /\ C9_LengthsConserved

\* The valid non-leaf entries of the tables reachable from the root.
PointerEntries ==
    {e \in {EntryAt(mm_tables, table, i) : table \in DOMAIN mm_tables,
                                           i \in 0..(TABLE_ENTRIES - 1)} :
        e.valid /\ ~is_leaf(e)}

\* The pages alloc_page has handed out.
AllocatedTables == {mm_allocated[i] : i \in 1..Len(mm_allocated)}

\* C31: after any sequence of map calls, every valid non-leaf entry points
\* to a PageTable obtained from alloc_page, and no map call follows the
\* physical address of a leaf entry as if it were a sub-table (also when
\* its va lies inside a superpage that is already mapped).
C31_MapKeepsTableWellFormed ==
    /\ \A e \in PointerEntries : physical_address(e).pn \in AllocatedTables
    /\ mm_last.op # "map_through_leaf"

(***************************************************************************)
(* Claims about the bytes of a loaded segment                              *)
(***************************************************************************)
LoadInit == BumpInit /\ CacheNew /\ BlockNew /\ TrapNew /\ LoadNew /\ ParNew /\ VfsNew /\ ClintNew /\ PlicNew /\ BitmapNew /\ ByteNew /\ LockNew /\ MmuNew /\ ExecNew /\ SysNew /\ ProcNew
SpecLoad == LoadInit /\ [][LoadNext]_vars

\* The bytes of the sequence of the i-th copy, as offsets from its start, and
\* the window the copy wrote.
SequenceBytes(proc, i) == 0..(proc.mapped[i].pages * PAGE_SIZE - 1)
CopiedWindow(proc, i) ==
    proc.copies[i].page_offset..(proc.copies[i].page_offset + proc.copies[i].file_length - 1)

\* The page of the pool that holds byte b of the sequence of the i-th copy.
PageOfByte(proc, i, b) == proc.mapped[i].base + b \div PAGE_SIZE

\* Byte b of the i-th sequence reads as zero: it was not copied to and its
\* page holds zeros.
ReadsZero(proc, i, b) ==
    ~(b \in CopiedWindow(proc, i)) => ld_fill[PageOfByte(proc, i, b)] = "zero"

\* The bytes at which a page or the window begins or ends: between two of
\* them every byte reads alike.
Marks(proc, i) ==
    {b \in SequenceBytes(proc, i) :
        \/ b % PAGE_SIZE = 0
        \/ b % PAGE_SIZE = PAGE_SIZE - 1
        \/ b = proc.copies[i].page_offset - 1
        \/ b = proc.copies[i].page_offset + proc.copies[i].file_length}

\* C32: after from_elf_file, every byte of the pages mapped for a LOAD
\* segment that lies outside the copied window [page_offset, page_offset +
\* filesz) reads as zero, whatever the pages held before they were
\* allocated.
C32_BssReadsZero ==
    pr_proc.state = "live" /\ pr_proc.by = "from_elf_file" =>
        \A i \in 1..Len(pr_proc.copies) : \A b \in Marks(pr_proc, i) : ReadsZero(pr_proc, i, b)

\* The addresses of the buffer of the write that was just handled.
BufferAddresses(call) == {AddrPlus(call.buffer, 0, i) : i \in 0..(call.length - 1)}

\* C33: write(fd, buf_va, len) reads only bytes the page table of the
\* caller maps: it returns Fault (and reads nothing) if any address of
\* [buf_va, buf_va + len) is unmapped, also when the buffer crosses a page
\* boundary, and each byte it reads is the one the page table gives for
\* that address.
C33_WriteReadsMappedBytes ==
    [][WriteHandled =>
        /\ (\E a \in BufferAddresses(sy_last') : Unmapped(a)) =>
                sy_last'.result = "Fault" /\ sy_uart' = sy_uart
        /\ sy_last'.result = "Ok" =>
                \A i \in 0..(sy_last'.length - 1) :
                    virtual_to_physical_address(mm_tables, AddrPlus(sy_last'.buffer, 0, i))
                        = AddrPlus(sy_uart'[Len(sy_uart')].ptr, 0, i)]_vars

\* C34: whatever number a user process places in x17 (a reserved one such
\* as read or exit, or an unknown one), raw_handle_syscall returns to the
\* trap handler without panicking.
C34_DispatchNeverPanics == sy_last.result # "panic"

(***************************************************************************)
(* Claims about the trap handler and the process table                     *)
(***************************************************************************)
TrapInit == BumpInit /\ CacheNew /\ BlockNew /\ TrapNew /\ LoadNew /\ ParNew /\ VfsNew /\ ClintNew /\ PlicNew /\ BitmapNew /\ ByteNew /\ LockNew /\ MmuNew /\ ExecNew /\ SysNew /\ ProcNew
SpecTrap == TrapInit /\ [][TrapNext]_vars

\* Process::switch has just entered user mode.
Switched == tp_trap.pc = "switch" /\ tp_hart'.mode = "user"

\* C35: a process that was running in user mode at pc x when a machine
\* timer interrupt arrived is entered at x the next time the timer handler
\* switches into it.
C35_ResumeAtSavedPc ==
    [][Switched /\ tp_at[tp_hart'.pid] # None => tp_hart'.pc = tp_at[tp_hart'.pid]]_vars

\* C36: the mutex of the process table is free whenever the hart is in user
\* mode; on the timer path it is released once the switching data is copied,
\* before Process::switch, so the trap that follows can acquire it.
C36_LockFreeAtSwitch ==
    /\ tp_hart.mode = "user" => tp_lock = "free"
    /\ tp_trap.pc = "switch" => tp_lock = "free" /\ tp_trap.data # <<>>
    /\ tp_note.op = "switch" => tp_note.lock = "free"

\* A process was switched into, and the handler of a later trap holds the
\* mutex.
C36_Witness ==
    /\ tp_note.op = "switch"
    /\ tp_trap.pc = "locked"
    /\ tp_trap.from.mode = "user"
    /\ tp_lock = "trap"

\* Timer interrupts keep arriving and the handler keeps running.
SpecTrapFair ==
    /\ TrapInit /\ [][TrapNext]_vars
    /\ WF_vars(TpTimerInterrupt) /\ WF_vars(TpTrapLock) /\ WF_vars(TpTimerFirstEntry)
    /\ WF_vars(TpSwitch) /\ WF_vars(TpEcallHandle)

\* C37: with two or more processes in the process table and timer
\* interrupts arriving forever, every process of the table is eventually
\* switched into.
C37_EveryProcessScheduled ==
    ([]<><<TpTimerInterrupt>>_vars) =>
        \A p \in Pids :
            (p \in DOMAIN tp_table /\ Cardinality(DOMAIN tp_table) >= 2)
                ~> (tp_hart.mode = "user" /\ tp_hart.pid = p)

\* C38: every process start_process inserts has a PID that no process of the
\* table has, however many processes were created.
C38_PidsUnique == tp_note.op = "insert" => tp_note.fresh

(***************************************************************************)
(* Claims about BlockOperationFuture                                       *)
(***************************************************************************)
BlockInit == BumpInit /\ CacheNew /\ BlockNew /\ TrapNew /\ LoadNew /\ ParNew /\ VfsNew /\ ClintNew /\ PlicNew /\ BitmapNew /\ ByteNew /\ LockNew /\ MmuNew /\ ExecNew /\ SysNew /\ ProcNew
SpecBlock == BlockInit /\ [][BlockNext]_vars

\* What a poll returns for the status it read.
Expected(status) ==
    IF status = ORIGINAL_STATUS THEN "Pending"
    ELSE IF status = 0 THEN "Ready(Ok(()))"
    ELSE IF status = 1 THEN "Ready(Err(IOError))"
    ELSE "Ready(Err(UnsupportedOperation))"

\* C39: a BlockOperationFuture returns Pending on every poll while the
\* status byte holds 111, and Ready on the first poll after the device has
\* written another value: Ok(()) for 0, IOError for 1, UnsupportedOperation
\* for 2. The status byte alone decides whether it suspends, and no poll
\* follows the Ready one.
C39_PendingUntilStatusWritten ==
    /\ \A i \in 1..Len(bk_polls) : bk_polls[i].result = Expected(bk_polls[i].status)
    /\ \A i \in 1..Len(bk_polls) :
          bk_polls[i].status # ORIGINAL_STATUS => i = Len(bk_polls) /\ ~bk_future.made

\* Two polls found 111 and were Pending, the device wrote 0, and the third
\* poll was Ready(Ok(())).
C39_Witness ==
    /\ Len(bk_polls) = 3
    /\ bk_polls[1].result = "Pending" /\ bk_polls[2].result = "Pending"
    /\ bk_polls[3] = [status |-> 0, result |-> "Ready(Ok(()))"]

(***************************************************************************)
(* Claims about the path caches                                            *)
(***************************************************************************)
CacheInit == BumpInit /\ CacheNew /\ BlockNew /\ TrapNew /\ LoadNew /\ ParNew /\ VfsNew /\ ClintNew /\ PlicNew /\ BitmapNew /\ ByteNew /\ LockNew /\ MmuNew /\ ExecNew /\ SysNew /\ ProcNew

\* A call that was begun keeps running.
SpecCache ==
    /\ CacheInit /\ [][CacheNext]_vars
    /\ WF_vars(VcReverseLookup) /\ WF_vars(VcRead) /\ WF_vars(VcWrite) /\ WF_vars(VcReturn)

\* invalidate_cache(inode) has returned and no path maps to the inode.
Invalidated(inode) ==
    /\ vc_call.pc = "idle"
    /\ vc_last.op = "invalidate_cache" /\ vc_last.inode = inode
    /\ \A path \in DOMAIN vc_path_cache : vc_path_cache[path] # inode

\* C40: whatever the caches hold (an inode may be cached under more than
\* one path), invalidate_cache(inode) returns, and when it does no path of
\* the forward cache maps to the inode.
C40_InvalidateTerminates ==
    \A inode \in CacheINodes :
        (vc_call.pc = "reverse_lookup" /\ vc_call.inode = inode) ~> Invalidated(inode)

====
